---- MODULE Spec2Model ----
(***************************************************************************)
(* The message-driven ingestion pipeline of the embedding service:         *)
(*   BackgroundPoller         adapters/input/background_poller.py          *)
(*   SQSPollerAdapter         adapters/input/sqs_poller.py                 *)
(*   EmbeddingPipelineService application/services.py                      *)
(*   generate_chunk_id, validate_chunk            domain/logic.py          *)
(*   S3FileLoaderAdapter, PineconeAdapter         adapters/output/         *)
(*   lifespan                                     main.py                  *)
(*                                                                         *)
(* Texts (exception messages, chunk contents) are sequences of one-        *)
(* character strings, so that str.lower(), str.strip() and the `in`        *)
(* substring test are computed and not assumed.                            *)
(***************************************************************************)
EXTENDS Integers, Sequences, FiniteSets, TLC

VARIABLES
    running,    \* BackgroundPoller._running
    task,       \* BackgroundPoller._task: 0 is None, else the id of the loop task
    pc,         \* pc[t]: where loop task t stands
    batch,      \* batch[t]: `messages` of the iteration in progress
    idx,        \* idx[t]: position in batch[t] of the message being handled
    calls,      \* calls[t]: the port calls made while handling the current message
    work,       \* work[t]: what the process_file call of the current message did
    escaped,    \* escaped[t]: the exception that left _process_message, or NoExc
    polls,      \* number of receive_messages calls made so far
    hostPc,     \* where the host's lifespan() stands; "callers" when start() and
                \* stop() are called by other coroutines instead
    waits,      \* the loop tasks that stop() calls in progress are awaiting
    lastStart,  \* what the last start() call did: "started" a loop, or "noop";
                \* "none": not called yet
    caught,     \* caught[t]: the exception the `except` of _poll_loop caught in the
                \* last iteration of loop task t, or NoExc
    queue,      \* ids of the messages held by the main queue
    msgs,       \* msgs[i]: the message with id i, as receive_messages returns it
    store,      \* the vector index: the entries upserted so far
    uuidCtr,    \* number of uuid4() values drawn so far
    runs,       \* the process_file calls completed so far, in order
    clsErr,     \* the exception handed to _is_critical_error
    clsResult,  \* "critical" or "retryable": what _is_critical_error returned for
                \* clsErr; "none": not called yet
    max_retries,\* BackgroundPoller.max_retries, as given to __init__
    handle,     \* handle[a]: the private field of adapter a ("model": _model of
                \* Model2VecAdapter, "index": _index of PineconeAdapter); 0 is None,
                \* n the n-th client object created for a
    inits,      \* inits[a]: number of client objects created for adapter a
    unit        \* unit[th]: where thread th stands in its unit of work, and the
                \* client object it holds

vars == <<running, task, pc, batch, idx, calls, work, escaped, polls, hostPc,
          waits, lastStart, caught, queue, msgs, store, uuidCtr, runs, clsErr, clsResult,
          max_retries, handle, inits, unit>>

pollerVars == <<running, task, pc, batch, idx, calls, work, escaped, polls, hostPc,
                waits, lastStart, caught, queue, msgs>>
pipeVars == <<store, uuidCtr, runs>>
clsVars == <<clsErr, clsResult>>
cfgVars == <<max_retries>>
lazyVars == <<handle, inits, unit>>

----------------------------------------------------------------------------
(* Bounds of the model. *)

\* messages in the main queue at the start
MaxQueue == 1
\* receive_messages calls of one run under lifespan(), counted while the queue
\* holds a message (an empty queue is polled on, uncounted)
MaxPolls == 1
\* the same under free start() and stop() calls
MaxLoopPolls == 2
\* messages in the main queue at the start, under free start() and stop() calls
MaxBatch == 1
\* documents the LangChain loader returns for one object
MaxDocs == 2
\* loop tasks created by start()
MaxTasks == 2
\* messages in the main queue at the start, where one receive returns them all
MaxReceived == 2

----------------------------------------------------------------------------
(* Texts. *)

Txt_NoSuchFile == <<"N", "o", " ", "s", "u", "c", "h", " ", "f", "i", "l", "e">>
Txt_TimedOut == <<"t", "i", "m", "e", "d", " ", "o", "u", "t">>
Txt_HostNotFound == <<"H", "o", "s", "t", " ", "N", "o", "t", " ", "F", "o", "u", "n", "d">>
Txt_Expecting == <<"E", "x", "p", "e", "c", "t", "i", "n", "g", " ", "v", "a", "l", "u", "e">>
Txt_HandleInvalid == <<"T", "h", "e", " ", "r", "e", "c", "e", "i", "p", "t", " ", "h", "a", "n", "d", "l", "e", " ", "i", "s", " ", "i", "n", "v", "a", "l", "i", "d", ".">>
Txt_RateExceeded == <<"R", "a", "t", "e", " ", "e", "x", "c", "e", "e", "d", "e", "d">>
Txt_ConnReset == <<"C", "o", "n", "n", "e", "c", "t", "i", "o", "n", " ", "r", "e", "s", "e", "t">>
Txt_Unsupported == <<"U", "N", "S", "U", "P", "P", "O", "R", "T", "E", "D", " ", "m", "e", "d", "i", "a">>
Txt_MismatchHead == <<"E", "m", "b", "e", "d", "d", "i", "n", "g", " ", "c", "o", "u", "n", "t", " ", "m", "i", "s", "m", "a", "t", "c", "h", ":", " ">>
Txt_MismatchMid == <<" ", "e", "m", "b", "e", "d", "d", "i", "n", "g", "s", " ", "f", "o", "r", " ">>
Txt_MismatchTail == <<" ", "c", "h", "u", "n", "k", "s">>
Txt_CouldNotExtract == <<"C", "o", "u", "l", "d", " ", "n", "o", "t", " ", "e", "x", "t", "r", "a", "c", "t", " ", "S", "3", " ", "b", "u", "c", "k", "e", "t", " ", "a", "n", "d", " ", "k", "e", "y", " ", "f", "r", "o", "m", " ", "m", "e", "s", "s", "a", "g", "e">>

Digits == <<"0", "1", "2", "3", "4", "5", "6", "7", "8", "9">>

\* str(n) for a one-digit n
StrOfInt(n) == <<Digits[n + 1]>>

UpperToLower ==
    ("A" :> "a") @@ ("B" :> "b") @@ ("C" :> "c") @@ ("D" :> "d") @@ ("E" :> "e") @@
    ("F" :> "f") @@ ("G" :> "g") @@ ("H" :> "h") @@ ("I" :> "i") @@ ("J" :> "j") @@
    ("K" :> "k") @@ ("L" :> "l") @@ ("M" :> "m") @@ ("N" :> "n") @@ ("O" :> "o") @@
    ("P" :> "p") @@ ("Q" :> "q") @@ ("R" :> "r") @@ ("S" :> "s") @@ ("T" :> "t") @@
    ("U" :> "u") @@ ("V" :> "v") @@ ("W" :> "w") @@ ("X" :> "x") @@ ("Y" :> "y") @@
    ("Z" :> "z")

\* str.lower()
Lower(s) ==
    [i \in 1..Len(s) |-> IF s[i] \in DOMAIN UpperToLower THEN UpperToLower[s[i]] ELSE s[i]]

\* `pattern in s` of two str
Contains(pattern, s) ==
    \E i \in 1..(Len(s) - Len(pattern) + 1) :
        SubSeq(s, i, i + Len(pattern) - 1) = pattern

----------------------------------------------------------------------------
(* Exceptions: type(e).__name__ and str(e). *)

Exc(typeName, text) == [type |-> typeName, msg |-> text]

NoExc == Exc("", <<>>)

----------------------------------------------------------------------------
(* BackgroundPoller._is_critical_error *)

critical_error_types ==
    {"ValueError", "KeyError", "AttributeError", "TypeError",
     "FileNotFoundError", "UnicodeDecodeError"}

critical_patterns ==
    { <<"i", "n", "v", "a", "l", "i", "d">>,
      <<"n", "o", "t", " ", "f", "o", "u", "n", "d">>,
      <<"p", "a", "r", "s", "e">>,
      <<"f", "o", "r", "m", "a", "t">>,
      <<"d", "e", "c", "o", "d", "e">>,
      <<"u", "n", "s", "u", "p", "p", "o", "r", "t", "e", "d">> }

\* mutant: the type test dropped, only the message is scanned
IsCriticalError_MessageOnly(error) ==
    \E pattern \in critical_patterns : Contains(pattern, Lower(error.msg))

\* mutant: the message is scanned without lower()
IsCriticalError_CaseSensitive(error) ==
    \/ error.type \in critical_error_types
    \/ \E pattern \in critical_patterns : Contains(pattern, error.msg)

\* mutant: every exception is critical
IsCriticalError_Always(error) == error = error

is_critical_error(error) ==
    LET error_type == error.type
        error_message == Lower(error.msg)
    IN  IF error_type \in critical_error_types
        THEN TRUE
        ELSE IF \E pattern \in critical_patterns : Contains(pattern, error_message)
             THEN TRUE
             ELSE FALSE

----------------------------------------------------------------------------
(* The specification of _is_critical_error alone: the exception is drawn   *)
(* from type names and texts, and the poller classifies it.                *)

ClassifyTypes ==
    critical_error_types \cup
    {"JSONDecodeError", "UnicodeEncodeError", "TimeoutError", "ConnectionError",
     "ClientError", "RuntimeError"}

ClassifyTexts ==
    {Txt_NoSuchFile, Txt_TimedOut, Txt_HostNotFound, Txt_Expecting, Txt_HandleInvalid,
     Txt_RateExceeded, Txt_ConnReset, Txt_Unsupported, <<>>,
     Txt_MismatchHead \o StrOfInt(1) \o Txt_MismatchMid \o StrOfInt(2) \o Txt_MismatchTail}

----------------------------------------------------------------------------
(* JSON values, as json.loads returns them: dict, list, str, int, None.    *)

JNone == [t |-> "none", v |-> <<>>]
JStr(chars) == [t |-> "str", v |-> chars]
JNum(n) == [t |-> "int", v |-> n]
JList(xs) == [t |-> "list", v |-> xs]
JDict(f) == [t |-> "dict", v |-> f]

EmptyDict == JDict(<<>>)

\* bool(x) of a JSON value
Truthy(x) ==
    CASE x.t = "none" -> FALSE
      [] x.t = "str"  -> Len(x.v) > 0
      [] x.t = "int"  -> x.v # 0
      [] x.t = "list" -> Len(x.v) > 0
      [] x.t = "dict" -> DOMAIN x.v # {}

\* the keys the poller looks up, as str
KeyText ==
    [bucket  |-> <<"b", "u", "c", "k", "e", "t">>,
     key     |-> <<"k", "e", "y">>,
     Records |-> <<"R", "e", "c", "o", "r", "d", "s">>,
     s3      |-> <<"s", "3">>]

\* `k in x`: "T", "F", or "E" when it raises TypeError
PyIn(k, x) ==
    CASE x.t = "dict" -> IF k \in DOMAIN x.v THEN "T" ELSE "F"
      [] x.t = "list" -> IF \E i \in 1..Len(x.v) : x.v[i].t = "str" /\ x.v[i].v = KeyText[k]
                         THEN "T" ELSE "F"
      [] x.t = "str"  -> IF Contains(KeyText[k], x.v) THEN "T" ELSE "F"
      [] OTHER        -> "E"

\* x.get(k, default) of a dict x
DictGet(x, k, default) == IF k \in DOMAIN x.v THEN x.v[k] ELSE default

B == <<"b">>
K == <<"d", "o", "c", "s", "/", "a", ".", "p", "d", "f">>
EB == <<"e", "b">>
EK == <<"e", "k">>

S3Record(bucketName, objectKey) ==
    JDict([s3 |-> JDict([bucket |-> JDict([name |-> JStr(bucketName)]),
                         object |-> JDict([key |-> JStr(objectKey)])])])

Body_Flat == "{\"bucket\":\"b\",\"key\":\"docs/a.pdf\"}"
Body_NotJson == "not json"
Body_OnlyBucket == "{\"bucket\":\"b\"}"
Body_Event == "{\"Records\":[{\"s3\":{\"bucket\":{\"name\":\"eb\"},\"object\":{\"key\":\"ek\"}}}]}"
Body_FlatEmptyKey == "{\"bucket\":\"b\",\"key\":\"\"}"
Body_FlatEmptyWithEvent == "{\"bucket\":\"\",\"key\":\"\",\"Records\":[{\"s3\":{\"bucket\":{\"name\":\"eb\"},\"object\":{\"key\":\"ek\"}}}]}"
Body_FlatIntBucket == "{\"bucket\":5,\"key\":\"docs/a.pdf\"}"
Body_List == "[\"bucket\",\"key\"]"
Body_Null == "null"
Body_Int == "7"
Body_Str == "\"bucket key\""
Body_RecordsNotList == "{\"Records\":\"x\"}"
Body_RecordInt == "{\"Records\":[5]}"
Body_S3Str == "{\"Records\":[{\"s3\":\"x\"}]}"
Body_BucketStr == "{\"Records\":[{\"s3\":{\"bucket\":\"eb\",\"object\":{\"key\":\"ek\"}}}]}"
Body_EventNoKey == "{\"Records\":[{\"s3\":{\"bucket\":{\"name\":\"eb\"},\"object\":{}}}]}"
Body_EventTwoRecords == "{\"Records\":[{\"s3\":{\"bucket\":{\"name\":\"eb\"},\"object\":{\"key\":\"ek\"}}},{\"s3\":{\"bucket\":{\"name\":\"b\"},\"object\":{\"key\":\"docs/a.pdf\"}}}]}"
Body_EmptyRecords == "{\"Records\":[]}"
Body_EventSecondValid == "{\"Records\":[{\"s3\":{\"bucket\":{\"name\":\"eb\"},\"object\":{}}},{\"s3\":{\"bucket\":{\"name\":\"b\"},\"object\":{\"key\":\"docs/a.pdf\"}}}]}"

Bodies ==
    {Body_Flat, Body_NotJson, Body_OnlyBucket, Body_Event, Body_FlatEmptyKey,
     Body_FlatEmptyWithEvent, Body_FlatIntBucket, Body_List, Body_Null, Body_Int,
     Body_Str, Body_RecordsNotList, Body_RecordInt, Body_S3Str, Body_BucketStr,
     Body_EventNoKey, Body_EventTwoRecords, Body_EmptyRecords, Body_EventSecondValid}

\* json.loads(message_body): ok is FALSE when it raises json.JSONDecodeError
json_loads(message_body) ==
    LET Ok(x) == [ok |-> TRUE, data |-> x]
    IN  CASE message_body = Body_Flat ->
               Ok(JDict([bucket |-> JStr(B), key |-> JStr(K)]))
          [] message_body = Body_OnlyBucket ->
               Ok(JDict([bucket |-> JStr(B)]))
          [] message_body = Body_Event ->
               Ok(JDict([Records |-> JList(<<S3Record(EB, EK)>>)]))
          [] message_body = Body_FlatEmptyKey ->
               Ok(JDict([bucket |-> JStr(B), key |-> JStr(<<>>)]))
          [] message_body = Body_FlatEmptyWithEvent ->
               Ok(JDict([bucket |-> JStr(<<>>), key |-> JStr(<<>>),
                         Records |-> JList(<<S3Record(EB, EK)>>)]))
          [] message_body = Body_FlatIntBucket ->
               Ok(JDict([bucket |-> JNum(5), key |-> JStr(K)]))
          [] message_body = Body_List ->
               Ok(JList(<<JStr(KeyText["bucket"]), JStr(KeyText["key"])>>))
          [] message_body = Body_Null -> Ok(JNone)
          [] message_body = Body_Int -> Ok(JNum(7))
          [] message_body = Body_Str ->
               Ok(JStr(KeyText["bucket"] \o <<" ">> \o KeyText["key"]))
          [] message_body = Body_RecordsNotList ->
               Ok(JDict([Records |-> JStr(<<"x">>)]))
          [] message_body = Body_RecordInt ->
               Ok(JDict([Records |-> JList(<<JNum(5)>>)]))
          [] message_body = Body_S3Str ->
               Ok(JDict([Records |-> JList(<<JDict([s3 |-> JStr(<<"x">>)])>>)]))
          [] message_body = Body_BucketStr ->
               Ok(JDict([Records |-> JList(<<JDict([s3 |->
                     JDict([bucket |-> JStr(EB),
                            object |-> JDict([key |-> JStr(EK)])])])>>)]))
          [] message_body = Body_EventNoKey ->
               Ok(JDict([Records |-> JList(<<JDict([s3 |->
                     JDict([bucket |-> JDict([name |-> JStr(EB)]),
                            object |-> EmptyDict])])>>)]))
          [] message_body = Body_EventTwoRecords ->
               Ok(JDict([Records |-> JList(<<S3Record(EB, EK), S3Record(B, K)>>)]))
          [] message_body = Body_EmptyRecords ->
               Ok(JDict([Records |-> JList(<<>>)]))
          [] message_body = Body_EventSecondValid ->
               Ok(JDict([Records |-> JList(<<
                     JDict([s3 |-> JDict([bucket |-> JDict([name |-> JStr(EB)]),
                                          object |-> EmptyDict])]),
                     S3Record(B, K)>>)]))
          [] OTHER -> [ok |-> FALSE, data |-> JNone]

----------------------------------------------------------------------------
(* BackgroundPoller._extract_s3_info: (bucket, key), or (None, None).      *)
(* Every exception raised inside its try block is caught there and gives   *)
(* (None, None) too.                                                       *)

NoneNone == <<JNone, JNone>>

\* Format 2 of a dict: the first record of Records
ExtractFromRecords(data) ==
    LET records == data.v["Records"]
    IN  IF records.t = "list" /\ Len(records.v) > 0
        THEN LET record == records.v[1]
             IN  IF PyIn("s3", record) # "T"
                 THEN NoneNone    \* not there, or TypeError
                 ELSE IF record.t # "dict"
                 THEN NoneNone    \* record['s3']: TypeError
                 ELSE LET s3_data == record.v["s3"]
                      IN  IF s3_data.t # "dict"
                          THEN NoneNone    \* s3_data.get: AttributeError
                          ELSE LET bucketObj == DictGet(s3_data, "bucket", EmptyDict)
                                   objectObj == DictGet(s3_data, "object", EmptyDict)
                               IN  IF bucketObj.t # "dict" \/ objectObj.t # "dict"
                                   THEN NoneNone    \* .get('name'): AttributeError
                                   ELSE LET bucket == DictGet(bucketObj, "name", JNone)
                                            key == DictGet(objectObj, "key", JNone)
                                        IN  IF Truthy(bucket) /\ Truthy(key)
                                            THEN <<bucket, key>>
                                            ELSE NoneNone
        ELSE NoneNone

\* mutant: Format 1 returns the pair in the wrong order
ExtractS3Info_Swapped(message_body) ==
    LET loaded == json_loads(message_body)
    IN  IF loaded.ok /\ loaded.data.t = "dict"
           /\ "bucket" \in DOMAIN loaded.data.v /\ "key" \in DOMAIN loaded.data.v
        THEN <<loaded.data.v["key"], loaded.data.v["bucket"]>>
        ELSE NoneNone

extract_s3_info(message_body) ==
    LET loaded == json_loads(message_body)
    IN  IF ~loaded.ok
        THEN NoneNone    \* json.JSONDecodeError
        ELSE LET data == loaded.data
             IN  IF PyIn("bucket", data) = "E"
                 THEN NoneNone    \* TypeError
                 ELSE IF PyIn("bucket", data) = "T" /\ PyIn("key", data) = "T"
                 THEN IF data.t = "dict"
                      THEN <<data.v["bucket"], data.v["key"]>>
                      ELSE NoneNone    \* data['bucket']: TypeError
                 ELSE IF PyIn("Records", data) = "T"
                 THEN IF data.t = "dict"
                      THEN ExtractFromRecords(data)
                      ELSE NoneNone    \* data['Records']: TypeError
                 ELSE NoneNone

----------------------------------------------------------------------------
(* What is raised inside the try block of _extract_s3_info, and what its   *)
(* two except clauses let out.                                             *)

\* type(x).__name__ of a JSON value
PyTypeName(x) ==
    CASE x.t = "none" -> <<"N", "o", "n", "e", "T", "y", "p", "e">>
      [] x.t = "str"  -> <<"s", "t", "r">>
      [] x.t = "int"  -> <<"i", "n", "t">>
      [] x.t = "list" -> <<"l", "i", "s", "t">>
      [] x.t = "dict" -> <<"d", "i", "c", "t">>

\* `k in x` on a value that is no container
NotIterable(x) ==
    Exc("TypeError", <<"a", "r", "g", "u", "m", "e", "n", "t", " ", "o", "f", " ", "t", "y", "p", "e", " ", "'">> \o PyTypeName(x) \o <<"'", " ", "i", "s", " ", "n", "o", "t", " ", "i", "t", "e", "r", "a", "b", "l", "e">>)

\* x[k] with a str k on a list or a str
BadIndex(x) ==
    Exc("TypeError",
        IF x.t = "list" THEN <<"l", "i", "s", "t", " ", "i", "n", "d", "i", "c", "e", "s", " ", "m", "u", "s", "t", " ", "b", "e", " ", "i", "n", "t", "e", "g", "e", "r", "s", " ", "o", "r", " ", "s", "l", "i", "c", "e", "s", ",", " ", "n", "o", "t", " ", "s", "t", "r">>
                        ELSE <<"s", "t", "r", "i", "n", "g", " ", "i", "n", "d", "i", "c", "e", "s", " ", "m", "u", "s", "t", " ", "b", "e", " ", "i", "n", "t", "e", "g", "e", "r", "s">>)

\* x.get on a value that is no dict
NoGet(x) ==
    Exc("AttributeError", <<"'">> \o PyTypeName(x) \o <<"'", " ", "o", "b", "j", "e", "c", "t", " ", "h", "a", "s", " ", "n", "o", " ", "a", "t", "t", "r", "i", "b", "u", "t", "e", " ", "'", "g", "e", "t", "'">>)

\* Format 2: what the lines from data['Records'][0] on raise
RecordsRaised(data) ==
    LET records == data.v["Records"]
    IN  IF records.t = "list" /\ Len(records.v) > 0
        THEN LET record == records.v[1]
             IN  IF PyIn("s3", record) = "E" THEN NotIterable(record)
                 ELSE IF PyIn("s3", record) = "F" THEN NoExc
                 ELSE IF record.t # "dict" THEN BadIndex(record)
                 ELSE LET s3_data == record.v["s3"]
                      IN  IF s3_data.t # "dict" THEN NoGet(s3_data)
                          ELSE LET bucketObj == DictGet(s3_data, "bucket", EmptyDict)
                                   objectObj == DictGet(s3_data, "object", EmptyDict)
                               IN  IF bucketObj.t # "dict" THEN NoGet(bucketObj)
                                   ELSE IF objectObj.t # "dict" THEN NoGet(objectObj)
                                   ELSE NoExc
        ELSE NoExc

\* the exception raised inside the try block, NoExc when it returns
ExtractRaised(message_body) ==
    LET loaded == json_loads(message_body)
    IN  IF ~loaded.ok
        THEN Exc("JSONDecodeError", Txt_Expecting)
        ELSE LET data == loaded.data
             IN  IF PyIn("bucket", data) = "E"
                 THEN NotIterable(data)
                 ELSE IF PyIn("bucket", data) = "T" /\ PyIn("key", data) = "T"
                 THEN IF data.t = "dict" THEN NoExc ELSE BadIndex(data)
                 ELSE IF PyIn("Records", data) = "T"
                 THEN IF data.t = "dict" THEN RecordsRaised(data) ELSE BadIndex(data)
                 ELSE NoExc

\* mutant: _extract_s3_info without its `except Exception` clause
ExtractEscapes_NoCatchAll(message_body) ==
    LET e == ExtractRaised(message_body)
    IN  IF e.type = "JSONDecodeError" THEN NoExc ELSE e

\* the exception that leaves _extract_s3_info: `except json.JSONDecodeError`
\* and `except Exception` both return (None, None)
ExtractEscapes(message_body) ==
    LET e == ExtractRaised(message_body)
    IN  IF e.type = "JSONDecodeError" THEN NoExc
        ELSE IF e # NoExc THEN NoExc
        ELSE NoExc

----------------------------------------------------------------------------
(* The pipeline: S3FileLoaderAdapter.load_document, validate_chunk,        *)
(* EmbeddingPipelineService.process_file, PineconeAdapter.upsert.          *)
(*                                                                         *)
(* A chunk id is str(uuid.uuid4()). The n-th value uuid4() draws is        *)
(* written n: every draw is a new value; 0 stands for the empty id.        *)

Whitespace == {" ", "\t", "\n"}

RECURSIVE LStrip(_)
LStrip(s) == IF Len(s) > 0 /\ Head(s) \in Whitespace THEN LStrip(Tail(s)) ELSE s

RECURSIVE RStrip(_)
RStrip(s) ==
    IF Len(s) > 0 /\ s[Len(s)] \in Whitespace THEN RStrip(SubSeq(s, 1, Len(s) - 1)) ELSE s

\* str.strip()
Strip(s) == RStrip(LStrip(s))

\* the page_content of the documents the LangChain loader returns
DocContents == {<<>>, <<" ">>, <<"a">>}

\* the metadata the LangChain loader gives a document
DocMetadata == [source |-> "s3://bucket/key"]

Doc(content) == [page_content |-> content, metadata |-> DocMetadata]

\* what loader.load() does: raises exc, or returns docs
LoadOutcomes(errors, docLists) ==
    {[exc |-> e, docs |-> <<>>] : e \in errors} \cup
    {[exc |-> NoExc, docs |-> docs] : docs \in docLists}

\* the lists of up to MaxDocs documents with these contents
DocLists(contents) ==
    {[i \in DOMAIN c |-> Doc(c[i])] : c \in UNION {[1..m -> contents] : m \in 0..MaxDocs}}

\* domain.logic.generate_chunk_id: str(uuid.uuid4()), whatever its arguments
generate_chunk_id(source, chunk_index, uuid4) == uuid4

\* mutant: whitespace-only content passes
ValidateChunk_NoStrip(chunk) ==
    /\ chunk.id # 0
    /\ Len(chunk.content) > 0
    /\ Truthy(chunk.source)
    /\ chunk.chunk_index >= 0

\* domain.logic.validate_chunk
validate_chunk(chunk) ==
    IF chunk.id = 0 THEN FALSE
    ELSE IF Len(chunk.content) = 0 \/ Len(Strip(chunk.content)) = 0 THEN FALSE
    ELSE IF ~Truthy(chunk.source) THEN FALSE
    ELSE IF chunk.chunk_index < 0 THEN FALSE
    ELSE TRUE

\* S3FileLoaderAdapter.load_document, when loader.load() returned docs:
\* the idx-th chunk takes the (uuid0 + idx + 1)-th uuid4
load_document(bucket, key, docs, uuid0) ==
    [i \in 1..Len(docs) |->
        [id          |-> generate_chunk_id(key, i - 1, uuid0 + i),
         content     |-> docs[i].page_content,
         source      |-> key,
         chunk_index |-> i - 1,
         metadata    |-> [bucket |-> bucket, s3_key |-> key] @@ docs[i].metadata]]

RECURSIVE SelectValid_Reversed(_)
\* mutant: the accepted chunks are collected in reverse
SelectValid_Reversed(chunks) ==
    IF chunks = <<>> THEN <<>>
    ELSE IF validate_chunk(Head(chunks))
         THEN SelectValid_Reversed(Tail(chunks)) \o <<Head(chunks)>>
         ELSE SelectValid_Reversed(Tail(chunks))

RECURSIVE SelectValid(_)
\* the loop of process_file that keeps the chunks validate_chunk accepts
SelectValid(chunks) ==
    IF chunks = <<>> THEN <<>>
    ELSE IF validate_chunk(Head(chunks))
         THEN <<Head(chunks)>> \o SelectValid(Tail(chunks))
         ELSE SelectValid(Tail(chunks))

\* the j-th vector an embedding model returns
Vec(j) == <<"vector", j>>

\* what generate_embeddings does: raises exc, or returns as many vectors as
\* texts plus `extra` (a model that is wrong about its output length)
EmbedOutcomes(errors, extras) ==
    {[exc |-> e, extra |-> 0] : e \in errors} \cup
    {[exc |-> NoExc, extra |-> d] : d \in extras}

generate_embeddings(texts, eo) ==
    [j \in 1..(IF Len(texts) + eo.extra < 0 THEN 0 ELSE Len(texts) + eo.extra) |-> Vec(j)]

\* what index.upsert does: raises exc, or stores the vectors
UpsertOutcomes(errors) == {[exc |-> e] : e \in errors \cup {NoExc}}

\* the index after index.upsert(vectors): an entry replaces the one of the same id
IndexUpsert(index, vectors) ==
    LET ids == {vectors[i].id : i \in 1..Len(vectors)}
    IN  {e \in index : e.id \notin ids} \cup
        {[id |-> vectors[i].id, values |-> vectors[i].vector,
          metadata |-> vectors[i].metadata] : i \in 1..Len(vectors)}

\* the ValueError of process_file
MismatchError(nEmbeddings, nChunks) ==
    Exc("ValueError",
        Txt_MismatchHead \o StrOfInt(nEmbeddings) \o Txt_MismatchMid
            \o StrOfInt(nChunks) \o Txt_MismatchTail)

\* the result of one process_file call
Outcome(exc, count, portCalls, chunks, valid, embeddings, vectors, index, uuids) ==
    [exc |-> exc, count |-> count, portCalls |-> portCalls, chunks |-> chunks,
     valid |-> valid, embeddings |-> embeddings, vectors |-> vectors,
     index |-> index, uuids |-> uuids]

\* mutant: the vectors are paired with the chunks from the other end
EmbeddingVectors_Misaligned(all_chunks, embeddings) ==
    [i \in 1..Len(all_chunks) |->
        [id |-> all_chunks[i].id, vector |-> embeddings[Len(all_chunks) + 1 - i],
         metadata |-> [source |-> all_chunks[i].source,
                       chunk_index |-> all_chunks[i].chunk_index]
                      @@ all_chunks[i].metadata]]

\* Step 4 of process_file: one EmbeddingVector per pair of zip(all_chunks,
\* embeddings), of equal lengths; {**chunk.metadata, 'source': ..., 'chunk_index':
\* ...} lets the two keys written last win
EmbeddingVectors(all_chunks, embeddings) ==
    [i \in 1..Len(all_chunks) |->
        [id |-> all_chunks[i].id, vector |-> embeddings[i],
         metadata |-> [source |-> all_chunks[i].source,
                       chunk_index |-> all_chunks[i].chunk_index]
                      @@ all_chunks[i].metadata]]

\* mutant: the count check dropped, zip() truncates to the shorter list
ProcessFile_NoCountCheck(bucket, s3_key, lo, eo, uo, index, uuid0) ==
    IF lo.exc # NoExc
    THEN Outcome(lo.exc, 0, <<"load">>, <<>>, <<>>, <<>>, <<>>, index, uuid0)
    ELSE
    LET document_chunks == load_document(bucket, s3_key, lo.docs, uuid0)
        uuids == uuid0 + Len(lo.docs)
        all_chunks == SelectValid(document_chunks)
        embeddings == generate_embeddings(all_chunks, eo)
        n == IF Len(embeddings) < Len(all_chunks) THEN Len(embeddings) ELSE Len(all_chunks)
        embedding_vectors ==
            [i \in 1..n |->
                [id |-> all_chunks[i].id, vector |-> embeddings[i],
                 metadata |-> [source |-> all_chunks[i].source,
                               chunk_index |-> all_chunks[i].chunk_index]
                              @@ all_chunks[i].metadata]]
    IN  IF all_chunks = <<>>
        THEN Outcome(NoExc, 0, <<"load">>, document_chunks, all_chunks, <<>>, <<>>,
                     index, uuids)
        ELSE IF eo.exc # NoExc
        THEN Outcome(eo.exc, 0, <<"load", "embed">>, document_chunks, all_chunks,
                     <<>>, <<>>, index, uuids)
        ELSE IF n = 0 \/ uo.exc # NoExc
        THEN Outcome(uo.exc, 0, <<"load", "embed", "upsert">>, document_chunks,
                     all_chunks, embeddings, embedding_vectors, index, uuids)
        ELSE Outcome(NoExc, n, <<"load", "embed", "upsert">>, document_chunks,
                     all_chunks, embeddings, embedding_vectors,
                     IndexUpsert(index, embedding_vectors), uuids)

\* EmbeddingPipelineService.process_file(bucket, s3_key), with PineconeAdapter.upsert,
\* on the index `index` when uuid0 uuids have been drawn; lo, eo and uo are what
\* the loader, the embedding model and the index do when called
process_file(bucket, s3_key, lo, eo, uo, index, uuid0) ==
    IF lo.exc # NoExc
    THEN \* load_document raises
         Outcome(lo.exc, 0, <<"load">>, <<>>, <<>>, <<>>, <<>>, index, uuid0)
    ELSE
    LET document_chunks == load_document(bucket, s3_key, lo.docs, uuid0)
        uuids == uuid0 + Len(lo.docs)
        all_chunks == SelectValid(document_chunks)
        texts == [i \in 1..Len(all_chunks) |-> all_chunks[i].content]
        embeddings == generate_embeddings(texts, eo)
        embedding_vectors == EmbeddingVectors(all_chunks, embeddings)
    IN  IF document_chunks = <<>>
        THEN Outcome(NoExc, 0, <<"load">>, document_chunks, <<>>, <<>>, <<>>, index, uuids)
        ELSE IF all_chunks = <<>>
        THEN Outcome(NoExc, 0, <<"load">>, document_chunks, all_chunks, <<>>, <<>>,
                     index, uuids)
        ELSE IF eo.exc # NoExc
        THEN \* generate_embeddings raises
             Outcome(eo.exc, 0, <<"load", "embed">>, document_chunks, all_chunks,
                     <<>>, <<>>, index, uuids)
        ELSE IF Len(embeddings) # Len(all_chunks)
        THEN Outcome(MismatchError(Len(embeddings), Len(all_chunks)), 0,
                     <<"load", "embed">>, document_chunks, all_chunks, embeddings,
                     <<>>, index, uuids)
        ELSE IF uo.exc # NoExc
        THEN \* PineconeAdapter.upsert: index.upsert raises
             Outcome(uo.exc, 0, <<"load", "embed", "upsert">>, document_chunks,
                     all_chunks, embeddings, embedding_vectors, index, uuids)
        ELSE Outcome(NoExc, Len(embedding_vectors), <<"load", "embed", "upsert">>,
                     document_chunks, all_chunks, embeddings, embedding_vectors,
                     IndexUpsert(index, embedding_vectors), uuids)

----------------------------------------------------------------------------
(* The lazily loaded clients: the `model` property of Model2VecAdapter and  *)
(* the `index` property of PineconeAdapter, read by the units of work that  *)
(* run on threads: the worker thread of asyncio.to_thread and the thread of *)
(* the BackgroundTasks task of POST /embedding/trigger. Both call           *)
(* process_file of the one EmbeddingPipelineService create_app() builds.    *)

\* the adapters with a lazy property, in the order process_file uses them:
\* generate_embeddings reads self.model, upsert reads self.index
LazyAdapters == <<"model", "index">>
LazyNames == {"model", "index"}

UnitThreads == {"worker", "background"}

\* a thread that runs no unit of work
IdleUnit == [at |-> "idle", a |-> 0, got |-> 0, used |-> [n \in LazyNames |-> 0]]

\* the adapter whose property thread th is in
UnitAdapter(th) == LazyAdapters[unit[th].a]

\* a thread begins process_file; a unit of work that loads no valid chunk, or
\* whose load raises, ends before it reads any client
UnitStart(th) ==
    /\ unit[th].at = "idle"
    /\ \/ unit' = [unit EXCEPT ![th].at = "check", ![th].a = 1]
       \/ unit' = [unit EXCEPT ![th].at = "done"]
    /\ UNCHANGED <<handle, inits>>
    /\ UNCHANGED <<pollerVars, pipeVars, clsVars, cfgVars>>

\* `if self._model is None` / `if self._index is None`
LazyCheck(th) ==
    /\ unit[th].at = "check"
    /\ unit' = [unit EXCEPT ![th].at = IF handle[UnitAdapter(th)] = 0
                                        THEN "create" ELSE "return"]
    /\ UNCHANGED <<handle, inits>>
    /\ UNCHANGED <<pollerVars, pipeVars, clsVars, cfgVars>>

\* StaticModel.from_pretrained(...) / pc.describe_index(...), pc.Index(...):
\* a new client object
LazyCreate(th) ==
    /\ unit[th].at = "create"
    /\ inits' = [inits EXCEPT ![UnitAdapter(th)] = @ + 1]
    /\ unit' = [unit EXCEPT ![th].at = "assign",
                            ![th].got = inits[UnitAdapter(th)] + 1]
    /\ UNCHANGED handle
    /\ UNCHANGED <<pollerVars, pipeVars, clsVars, cfgVars>>

\* the assignment to self._model / self._index
LazyAssign(th) ==
    /\ unit[th].at = "assign"
    /\ handle' = [handle EXCEPT ![UnitAdapter(th)] = unit[th].got]
    /\ unit' = [unit EXCEPT ![th].at = "return"]
    /\ UNCHANGED inits
    /\ UNCHANGED <<pollerVars, pipeVars, clsVars, cfgVars>>

\* `return self._model` / `return self._index`, and the call made on the client;
\* process_file goes on to the next adapter, or returns
LazyReturn(th) ==
    /\ unit[th].at = "return"
    /\ unit' = [unit EXCEPT
                    ![th].used = [@ EXCEPT ![UnitAdapter(th)] = handle[UnitAdapter(th)]],
                    ![th].got = 0,
                    ![th].at = IF unit[th].a < Len(LazyAdapters) THEN "check" ELSE "done",
                    ![th].a = IF unit[th].a < Len(LazyAdapters) THEN @ + 1 ELSE @]
    /\ UNCHANGED <<handle, inits>>
    /\ UNCHANGED <<pollerVars, pipeVars, clsVars, cfgVars>>

----------------------------------------------------------------------------
(* Messages and the queue port: SQSPollerAdapter.                          *)

\* the receipt handle of the message with id i
Handles == <<"t1", "t2", "t3", "t4">>

NoAttributes == <<>>
TraceAttributes == [trace |-> [DataType |-> "String", StringValue |-> "upload-7"]]

Message(body, receipt_handle, attributes) ==
    [Body |-> body, ReceiptHandle |-> receipt_handle, MessageAttributes |-> attributes]

\* the messages the main queue may hold as its i-th; "" is a missing ReceiptHandle
QueueMessages(i) ==
    {Message(Body_Flat, Handles[i], TraceAttributes),
     Message(Body_NotJson, Handles[i], TraceAttributes),
     Message(Body_Event, Handles[i], NoAttributes),
     Message(Body_OnlyBucket, Handles[i], NoAttributes),
     Message(Body_NotJson, "", NoAttributes),
     Message(Body_Flat, "", NoAttributes)}

\* BackgroundPoller.max_messages_per_poll
max_messages_per_poll == 10

\* the cap of SQSPollerAdapter.receive_messages
SqsMaxMessages == 10

\* what a call of the queue's client may raise
QueueErrors == {Exc("ClientError", Txt_HandleInvalid), Exc("ClientError", Txt_RateExceeded)}
QueueOutcomes == QueueErrors \cup {NoExc}

\* one call of a port made while a message is handled: its arguments, what it
\* raised (exc), and for send_to_dlq the MessageAttributes handed to the client
Call(op, token, body, attrs, target, exc, sent) ==
    [op |-> op, token |-> token, body |-> body, attrs |-> attrs, target |-> target,
     exc |-> exc, sent |-> sent]

\* SQSPollerAdapter.receive_messages(max_messages), when the client does not raise:
\* the batches the queue may return
receive_messages(max_messages) ==
    LET limit == IF max_messages > SqsMaxMessages THEN SqsMaxMessages ELSE max_messages
    IN  {b \in UNION {[1..n -> queue] : n \in 0..Cardinality(queue)} :
            /\ Len(b) <= limit
            /\ \A i, j \in 1..Len(b) : i # j => b[i] # b[j]}

\* SQSPollerAdapter.delete_message(receipt_handle) on the ports' state q,
\* where the client raises o (NoExc: it returns)
delete_message(q, receipt_handle, o) ==
    [q EXCEPT
        !.calls = Append(@, Call("delete", receipt_handle, "", NoAttributes, NoneNone, o,
                                 NoAttributes)),
        !.queue = IF o = NoExc
                  THEN {i \in @ : msgs[i].ReceiptHandle # receipt_handle}
                  ELSE @]

\* SQSPollerAdapter.send_to_dlq(message_body, original_message_attributes)
send_to_dlq(q, message_body, original_message_attributes, o) ==
    LET kept == {k \in DOMAIN original_message_attributes :
                    "StringValue" \in DOMAIN original_message_attributes[k]}
        message_attributes ==
            [k \in kept |->
                [DataType |-> IF "DataType" \in DOMAIN original_message_attributes[k]
                              THEN original_message_attributes[k].DataType
                              ELSE "String",
                 StringValue |-> original_message_attributes[k].StringValue]]
    IN  [q EXCEPT
            !.calls = Append(@, Call("dlq", "", message_body,
                                     original_message_attributes, NoneNone, o,
                                     message_attributes))]

----------------------------------------------------------------------------
(* BackgroundPoller: one message.                                          *)

\* datetime.now(UTC).isoformat() + 'Z'
FailedAtNow == "utcnow+Z"

\* mutant: the lower-cased message is stored
SendToDlqWithError_Lowered(q, message_body, original_attributes, error_type, error_message, o) ==
    send_to_dlq(q, message_body,
        ("ErrorType" :> [DataType |-> "String", StringValue |-> error_type]
         @@ "ErrorMessage" :> [DataType |-> "String", StringValue |-> Lower(error_message)]
         @@ "FailedAt" :> [DataType |-> "String", StringValue |-> FailedAtNow])
        @@ original_attributes, o)

\* mutant: the error keys are written into the message's own attributes dict
SendToDlqWithError_InPlace(q, message_body, original_attributes, error_type, error_message, o) ==
    LET error_attributes ==
            ("ErrorType" :> [DataType |-> "String", StringValue |-> error_type]
             @@ "ErrorMessage" :> [DataType |-> "String", StringValue |-> error_message]
             @@ "FailedAt" :> [DataType |-> "String", StringValue |-> FailedAtNow])
            @@ original_attributes
    IN  [send_to_dlq(q, message_body, error_attributes, o)
            EXCEPT !.attributes = error_attributes]

\* BackgroundPoller._send_to_dlq_with_error: the three keys are written into
\* original_attributes.copy(), or into a new dict when there are no attributes,
\* so q.attributes, the dict of the message, stays as it is
send_to_dlq_with_error(q, message_body, original_attributes, error_type, error_message, o) ==
    LET error_attributes ==
            ("ErrorType" :> [DataType |-> "String", StringValue |-> error_type]
             @@ "ErrorMessage" :> [DataType |-> "String", StringValue |-> error_message]
             @@ "FailedAt" :> [DataType |-> "String", StringValue |-> FailedAtNow])
            @@ original_attributes
    IN  send_to_dlq(q, message_body, error_attributes, o)

\* mutant: the message is deleted before it is dead-lettered
ExceptHandler_DeleteFirst(q, e, message, oDlq, oDel) ==
    IF is_critical_error(e)
    THEN LET q1 == delete_message(q, message.ReceiptHandle, oDel)
         IN  IF oDel # NoExc
             THEN [q |-> q1, escaped |-> oDel]
             ELSE [q |-> send_to_dlq_with_error(q1, message.Body,
                            message.MessageAttributes, e.type, e.msg, oDlq),
                   escaped |-> oDlq]
    ELSE [q |-> q, escaped |-> NoExc]

\* mutant: the message is deleted although the dead-letter send raised
ExceptHandler_DeleteAnyway(q, e, message, oDlq, oDel) ==
    IF is_critical_error(e)
    THEN [q |-> delete_message(
                    send_to_dlq_with_error(q, message.Body, message.MessageAttributes,
                                           e.type, e.msg, oDlq),
                    message.ReceiptHandle, oDel),
          escaped |-> oDel]
    ELSE [q |-> q, escaped |-> NoExc]

\* the `except Exception as e` of _process_message; oDlq and oDel are what the
\* queue's client raises when called. escaped: the exception that leaves it
ExceptHandler(q, e, message, oDlq, oDel) ==
    IF is_critical_error(e)
    THEN LET q1 == send_to_dlq_with_error(q, message.Body, message.MessageAttributes,
                                          e.type, e.msg, oDlq)
         IN  IF oDlq # NoExc
             THEN [q |-> q1, escaped |-> oDlq]
             ELSE [q |-> delete_message(q1, message.ReceiptHandle, oDel),
                   escaped |-> oDel]
    ELSE [q |-> q, escaped |-> NoExc]

\* mutant: a body without a target is handed to process_file
ProcessMessageSync_NoCheck(q, message, o1, o2, o3, o4) ==
    IF message.ReceiptHandle = ""
    THEN [q |-> q, escaped |-> NoExc, dispatched |-> FALSE, target |-> NoneNone]
    ELSE [q |-> [q EXCEPT !.calls = Append(@, Call("process", "", "", NoAttributes,
                                                   extract_s3_info(message.Body), NoExc,
                                                   NoAttributes))],
          escaped |-> NoExc, dispatched |-> TRUE,
          target |-> extract_s3_info(message.Body)]

\* mutant: the ReceiptHandle is not looked at before the body is parsed
ProcessMessageSync_HandleUnchecked(q, message, o1, o2, o3, o4) ==
    LET info == extract_s3_info(message.Body)
    IN  IF ~Truthy(info[1]) \/ ~Truthy(info[2])
        THEN LET q1 == send_to_dlq_with_error(q, message.Body, message.MessageAttributes,
                            "INVALID_MESSAGE_FORMAT", Txt_CouldNotExtract, o1)
             IN  IF o1 # NoExc
                 THEN [q |-> q1, escaped |-> o1, dispatched |-> FALSE, target |-> NoneNone]
                 ELSE [q |-> delete_message(q1, message.ReceiptHandle, o2),
                       escaped |-> o2, dispatched |-> FALSE, target |-> NoneNone]
        ELSE [q |-> [q EXCEPT !.calls = Append(@, Call("process", "", "", NoAttributes,
                                                       info, NoExc, NoAttributes))],
              escaped |-> NoExc, dispatched |-> TRUE, target |-> info]

\* _process_message up to its await: the message is skipped, or dead-lettered as
\* INVALID_MESSAGE_FORMAT and deleted, or process_file is dispatched to a thread
ProcessMessageSync(q, message, o1, o2, o3, o4) ==
    LET message_body == message.Body
        receipt_handle == message.ReceiptHandle
        message_attributes == message.MessageAttributes
        info == extract_s3_info(message_body)
        bucket == info[1]
        key == info[2]
        Done(r) == [q |-> r.q, escaped |-> r.escaped, dispatched |-> FALSE,
                    target |-> NoneNone]
    IN  IF receipt_handle = ""
        THEN Done([q |-> q, escaped |-> NoExc])
        ELSE IF ExtractEscapes(message_body) # NoExc
        THEN Done(ExceptHandler(q, ExtractEscapes(message_body), message, o3, o4))
        ELSE IF ~Truthy(bucket) \/ ~Truthy(key)
        THEN LET q1 == send_to_dlq_with_error(q, message_body, message_attributes,
                            "INVALID_MESSAGE_FORMAT", Txt_CouldNotExtract, o1)
             IN  IF o1 # NoExc
                 THEN Done(ExceptHandler(q1, o1, message, o3, o4))
                 ELSE LET q2 == delete_message(q1, receipt_handle, o2)
                      IN  IF o2 # NoExc
                          THEN Done(ExceptHandler(q2, o2, message, o3, o4))
                          ELSE Done([q |-> q2, escaped |-> NoExc])
        ELSE [q |-> [q EXCEPT !.calls = Append(@, Call("process", "", "", NoAttributes,
                                                       info, NoExc, NoAttributes))],
              escaped |-> NoExc, dispatched |-> TRUE, target |-> info]

\* mutant: the message is not deleted after process_file returned
ProcessMessageResume_NoDelete(q, message, w, o2, o3, o4) ==
    IF w.exc # NoExc
    THEN ExceptHandler(q, w.exc, message, o3, o4)
    ELSE [q |-> q, escaped |-> NoExc]

\* mutant: the message is deleted whatever process_file did
ProcessMessageResume_DeleteAlways(q, message, w, o2, o3, o4) ==
    LET q1 == delete_message(q, message.ReceiptHandle, o2)
    IN  IF w.exc # NoExc
        THEN ExceptHandler(q1, w.exc, message, o3, o4)
        ELSE IF o2 # NoExc
             THEN ExceptHandler(q1, o2, message, o3, o4)
             ELSE [q |-> q1, escaped |-> NoExc]

\* _process_message from its await on: process_file returned or raised (w)
ProcessMessageResume(q, message, w, o2, o3, o4) ==
    IF w.exc # NoExc
    THEN ExceptHandler(q, w.exc, message, o3, o4)
    ELSE LET q1 == delete_message(q, message.ReceiptHandle, o2)
         IN  IF o2 # NoExc
             THEN ExceptHandler(q1, o2, message, o3, o4)
             ELSE [q |-> q1, escaped |-> NoExc]

----------------------------------------------------------------------------
(* BackgroundPoller: the poll loop and its tasks.                          *)
(*   pc[t]: "none"    task t is not created                                *)
(*          "while"   at `while self._running`                             *)
(*          "message" about to handle batch[t][idx[t]]                     *)
(*          "thread"  awaiting asyncio.to_thread(process_file, ...)        *)
(*          "resume"  process_file has returned or raised                  *)
(*          "handled" _process_message is over for batch[t][idx[t]]        *)
(*          "sleep"   in asyncio.sleep(polling_interval)                   *)
(*          "exited"  _poll_loop has returned                              *)

Tasks == 1..MaxTasks

NoWork == [state |-> "none", exc |-> NoExc, count |-> 0, target |-> NoneNone]

\* what the ports do when the poller's unit of work calls them
PollerLoadErrors == {Exc("FileNotFoundError", Txt_NoSuchFile), Exc("TimeoutError", Txt_HostNotFound)}
PollerDocLists == {<<>>, <<Doc(<<"a">>)>>}
PollerEmbedExtras == {-1, 0}
PollerUpsertErrors == {Exc("TimeoutError", Txt_TimedOut)}
ReceiveErrors == {Exc("ClientError", Txt_RateExceeded)}

\* what the ports do in a run: every outcome above under lifespan(); under free
\* start() and stop() calls the queue's delete and send calls return, and a unit
\* of work succeeds, fails with a critical error or fails with a retryable one
RunQueueOutcomes == IF hostPc = "callers" THEN {NoExc} ELSE QueueOutcomes
RunLoadOutcomes ==
    IF hostPc = "callers"
    THEN LoadOutcomes({Exc("FileNotFoundError", Txt_NoSuchFile)}, {<<Doc(<<"a">>)>>})
    ELSE LoadOutcomes(PollerLoadErrors, PollerDocLists)
RunEmbedOutcomes ==
    IF hostPc = "callers" THEN EmbedOutcomes({}, {0}) ELSE EmbedOutcomes({}, PollerEmbedExtras)
RunUpsertOutcomes == UpsertOutcomes(PollerUpsertErrors)

CurrentMessage(t) == msgs[batch[t][idx[t]]]

\* what the handling of the current message of task t acts on: the main queue,
\* the port calls made so far, and the MessageAttributes dict of the message,
\* handed to _send_to_dlq_with_error by reference
Ports(t, made) ==
    [queue |-> queue, calls |-> made, attributes |-> CurrentMessage(t).MessageAttributes]

\* asyncio runs one coroutine at a time: a loop task between two of its awaits
\* (handling a message, up to the await of its worker thread or to the sleep)
\* holds the event loop, and no other coroutine runs until it awaits
HoldsEventLoop(t) == pc[t] \in {"message", "handled"}

EventLoopFree == \A t \in Tasks : ~HoldsEventLoop(t)

EventLoopFreeFor(t) == \A u \in Tasks \ {t} : ~HoldsEventLoop(u)

\* the receive_messages calls a run may make on a queue that holds a message
PollCap == IF hostPc = "callers" THEN MaxLoopPolls ELSE MaxPolls

\* mutant: start() without its `if self._running` guard
StartCall_NoGuard ==
    LET new == 1 + Cardinality({t \in Tasks : pc[t] # "none"})
    IN  /\ new \in Tasks
        /\ running' = TRUE
        /\ task' = new
        /\ pc' = [pc EXCEPT ![new] = "while"]
        /\ lastStart' = IF running THEN "noop" ELSE "started"

\* BackgroundPoller.start()
StartCall ==
    IF running
    THEN /\ lastStart' = "noop"
         /\ UNCHANGED <<running, task, pc>>
    ELSE LET new == 1 + Cardinality({t \in Tasks : pc[t] # "none"})
         IN  /\ new \in Tasks
             /\ running' = TRUE
             /\ task' = new
             /\ pc' = [pc EXCEPT ![new] = "while"]
             /\ lastStart' = "started"

\* BackgroundPoller.stop(), up to its await
StopCall ==
    /\ running' = FALSE
    /\ waits' = IF task = 0 THEN waits ELSE waits \cup {task}

\* BackgroundPoller.stop(): `await self._task` is over for a stop() awaiting k
StopReturn(k) ==
    /\ k \in waits
    /\ pc[k] = "exited"
    /\ waits' = waits \ {k}

\* lifespan(): startup
LifespanStartup ==
    /\ hostPc = "startup"
    /\ EventLoopFree
    /\ StartCall
    /\ hostPc' = "serving"
    /\ UNCHANGED <<batch, idx, calls, work, escaped, polls, waits, caught, queue, msgs>>
    /\ UNCHANGED <<pipeVars, clsVars, cfgVars, lazyVars>>

\* lifespan(): shutdown calls stop(), which clears the flag and awaits the task
LifespanShutdown ==
    /\ hostPc = "serving"
    /\ EventLoopFree
    /\ StopCall
    /\ hostPc' = "stopping"
    /\ UNCHANGED <<task, pc, batch, idx, calls, work, escaped, polls, lastStart, caught,
                   queue, msgs>>
    /\ UNCHANGED <<pipeVars, clsVars, cfgVars, lazyVars>>

\* lifespan(): stop() returns
LifespanStopped ==
    /\ hostPc = "stopping"
    /\ EventLoopFree
    /\ IF task = 0 THEN UNCHANGED waits ELSE StopReturn(task)
    /\ hostPc' = "stopped"
    /\ UNCHANGED <<running, task, pc, batch, idx, calls, work, escaped, polls, lastStart,
                   caught, queue, msgs>>
    /\ UNCHANGED <<pipeVars, clsVars, cfgVars, lazyVars>>

\* start() called by a coroutine of the host
Start ==
    /\ hostPc = "callers"
    /\ EventLoopFree
    /\ StartCall
    /\ UNCHANGED <<batch, idx, calls, work, escaped, polls, hostPc, waits, caught, queue,
                   msgs>>
    /\ UNCHANGED <<pipeVars, clsVars, cfgVars, lazyVars>>

\* stop() called by a coroutine of the host
Stop ==
    /\ hostPc = "callers"
    /\ EventLoopFree
    /\ StopCall
    /\ UNCHANGED <<task, pc, batch, idx, calls, work, escaped, polls, hostPc, lastStart,
                   caught, queue, msgs>>
    /\ UNCHANGED <<pipeVars, clsVars, cfgVars, lazyVars>>

\* a stop() call returns
Stopped(k) ==
    /\ hostPc = "callers"
    /\ EventLoopFree
    /\ StopReturn(k)
    /\ UNCHANGED <<running, task, pc, batch, idx, calls, work, escaped, polls, hostPc,
                   lastStart, caught, queue, msgs>>
    /\ UNCHANGED <<pipeVars, clsVars, cfgVars, lazyVars>>

\* mutant: the loop is `while True`
PollIterate_IgnoresFlag(t) ==
    /\ pc[t] = "while"
    /\ EventLoopFreeFor(t)
    /\ polls < PollCap \/ queue = {}
    /\ polls' = IF polls < PollCap THEN polls + 1 ELSE polls
    /\ \/ \E e \in ReceiveErrors :
            \* caught by the loop's `except Exception`, which sleeps
            /\ pc' = [pc EXCEPT ![t] = "sleep"]
            /\ caught' = [caught EXCEPT ![t] = e]
            /\ UNCHANGED <<batch, idx>>
       \/ \E messages \in receive_messages(max_messages_per_poll) :
            /\ caught' = [caught EXCEPT ![t] = NoExc]
            /\ IF messages = <<>>
               THEN /\ pc' = [pc EXCEPT ![t] = "sleep"]
                    /\ UNCHANGED <<batch, idx>>
               ELSE /\ pc' = [pc EXCEPT ![t] = "message"]
                    /\ batch' = [batch EXCEPT ![t] = messages]
                    /\ idx' = [idx EXCEPT ![t] = 1]
    /\ UNCHANGED <<running, task, calls, work, escaped, hostPc, waits, lastStart, queue,
                   msgs>>
    /\ UNCHANGED <<pipeVars, clsVars, cfgVars, lazyVars>>

\* mutant: _poll_loop without its `except`, a failed receive ends the loop
PollIterate_ErrorExits(t) ==
    /\ pc[t] = "while"
    /\ EventLoopFreeFor(t)
    /\ running
    /\ polls < PollCap \/ queue = {}
    /\ polls' = IF polls < PollCap THEN polls + 1 ELSE polls
    /\ \/ \E e \in ReceiveErrors :
            /\ pc' = [pc EXCEPT ![t] = "exited"]
            /\ caught' = [caught EXCEPT ![t] = e]
            /\ UNCHANGED <<batch, idx>>
       \/ \E messages \in receive_messages(max_messages_per_poll) :
            /\ caught' = [caught EXCEPT ![t] = NoExc]
            /\ IF messages = <<>>
               THEN /\ pc' = [pc EXCEPT ![t] = "sleep"]
                    /\ UNCHANGED <<batch, idx>>
               ELSE /\ pc' = [pc EXCEPT ![t] = "message"]
                    /\ batch' = [batch EXCEPT ![t] = messages]
                    /\ idx' = [idx EXCEPT ![t] = 1]
    /\ UNCHANGED <<running, task, calls, work, escaped, hostPc, waits, lastStart, queue,
                   msgs>>
    /\ UNCHANGED <<pipeVars, clsVars, cfgVars, lazyVars>>

\* _poll_loop: the flag is set, _process_messages calls receive_messages
PollIterate(t) ==
    /\ pc[t] = "while"
    /\ EventLoopFreeFor(t)
    /\ running
    /\ polls < PollCap \/ queue = {}
    /\ polls' = IF polls < PollCap THEN polls + 1 ELSE polls
    /\ \/ \E e \in ReceiveErrors :
            \* caught by the loop's `except Exception`, which sleeps
            /\ pc' = [pc EXCEPT ![t] = "sleep"]
            /\ caught' = [caught EXCEPT ![t] = e]
            /\ UNCHANGED <<batch, idx>>
       \/ \E messages \in receive_messages(max_messages_per_poll) :
            /\ caught' = [caught EXCEPT ![t] = NoExc]
            /\ IF messages = <<>>
               THEN /\ pc' = [pc EXCEPT ![t] = "sleep"]
                    /\ UNCHANGED <<batch, idx>>
               ELSE /\ pc' = [pc EXCEPT ![t] = "message"]
                    /\ batch' = [batch EXCEPT ![t] = messages]
                    /\ idx' = [idx EXCEPT ![t] = 1]
    /\ UNCHANGED <<running, task, calls, work, escaped, hostPc, waits, lastStart, queue,
                   msgs>>
    /\ UNCHANGED <<pipeVars, clsVars, cfgVars, lazyVars>>

\* _poll_loop: the flag is cleared, the loop returns
LoopExit(t) ==
    /\ pc[t] = "while"
    /\ EventLoopFreeFor(t)
    /\ ~running
    /\ pc' = [pc EXCEPT ![t] = "exited"]
    /\ UNCHANGED <<running, task, batch, idx, calls, work, escaped, polls, hostPc, waits, lastStart, caught,
                   queue, msgs>>
    /\ UNCHANGED <<pipeVars, clsVars, cfgVars, lazyVars>>

\* _process_message, up to its await
HandleMessage(t) ==
    /\ pc[t] = "message"
    /\ \E o1, o2, o3, o4 \in RunQueueOutcomes :
        LET r == ProcessMessageSync(Ports(t, <<>>), CurrentMessage(t), o1, o2, o3, o4)
        IN  /\ queue' = r.q.queue
            /\ msgs' = [msgs EXCEPT ![batch[t][idx[t]]].MessageAttributes =
                                        r.q.attributes]
            /\ calls' = [calls EXCEPT ![t] = r.q.calls]
            /\ escaped' = [escaped EXCEPT ![t] = r.escaped]
            /\ work' = [work EXCEPT ![t] = [NoWork EXCEPT !.target = r.target]]
            /\ pc' = [pc EXCEPT ![t] = IF r.dispatched THEN "thread" ELSE "handled"]
    /\ UNCHANGED <<running, task, batch, idx, polls, hostPc, waits, lastStart, caught>>
    /\ UNCHANGED <<pipeVars, clsVars, cfgVars, lazyVars>>

\* the worker thread of asyncio.to_thread runs process_file(bucket, key)
RunWorker(t) ==
    /\ pc[t] = "thread"
    /\ \E lo \in RunLoadOutcomes, eo \in RunEmbedOutcomes, uo \in RunUpsertOutcomes :
        LET r == process_file(work[t].target[1], work[t].target[2], lo, eo, uo,
                              store, uuidCtr)
        IN  /\ store' = r.index
            /\ uuidCtr' = r.uuids
            /\ work' = [work EXCEPT ![t] = [state |-> "done", exc |-> r.exc,
                                            count |-> r.count, target |-> @.target]]
    /\ pc' = [pc EXCEPT ![t] = "resume"]
    /\ UNCHANGED <<running, task, batch, idx, calls, escaped, polls, hostPc, waits, lastStart, caught, queue,
                   msgs, runs>>
    /\ UNCHANGED <<clsVars, cfgVars, lazyVars>>

\* mutant: the poller counts the failed deliveries and dead-letters the message
\* once max_retries of them have failed (each failed upsert drew one chunk id
\* and stored nothing)
ResumeMessage_CountsRetries(t) ==
    /\ pc[t] = "resume"
    /\ EventLoopFreeFor(t)
    /\ \E o2, o3, o4 \in RunQueueOutcomes :
        LET exhausted == work[t].exc # NoExc
                            /\ uuidCtr - Cardinality(store) >= max_retries
            r == IF exhausted
                 THEN ExceptHandler(Ports(t, calls[t]),
                                    Exc("FileNotFoundError", work[t].exc.msg),
                                    CurrentMessage(t), o3, o4)
                 ELSE ProcessMessageResume(Ports(t, calls[t]), CurrentMessage(t),
                                           work[t], o2, o3, o4)
        IN  /\ queue' = r.q.queue
            /\ msgs' = [msgs EXCEPT ![batch[t][idx[t]]].MessageAttributes =
                                        r.q.attributes]
            /\ calls' = [calls EXCEPT ![t] = r.q.calls]
            /\ escaped' = [escaped EXCEPT ![t] = r.escaped]
    /\ pc' = [pc EXCEPT ![t] = "handled"]
    /\ UNCHANGED <<running, task, batch, idx, work, polls, hostPc, waits, lastStart, caught>>
    /\ UNCHANGED <<pipeVars, clsVars, cfgVars, lazyVars>>

\* _process_message, from its await on
ResumeMessage(t) ==
    /\ pc[t] = "resume"
    /\ EventLoopFreeFor(t)
    /\ \E o2, o3, o4 \in RunQueueOutcomes :
        LET r == ProcessMessageResume(Ports(t, calls[t]), CurrentMessage(t), work[t],
                                      o2, o3, o4)
        IN  /\ queue' = r.q.queue
            /\ msgs' = [msgs EXCEPT ![batch[t][idx[t]]].MessageAttributes =
                                        r.q.attributes]
            /\ calls' = [calls EXCEPT ![t] = r.q.calls]
            /\ escaped' = [escaped EXCEPT ![t] = r.escaped]
    /\ pc' = [pc EXCEPT ![t] = "handled"]
    /\ UNCHANGED <<running, task, batch, idx, work, polls, hostPc, waits, lastStart, caught>>
    /\ UNCHANGED <<pipeVars, clsVars, cfgVars, lazyVars>>

\* mutant: _process_messages without the `try` around _process_message, what
\* escapes the handling of one message ends the batch in _poll_loop's `except`
NextMessage_AbortsBatch(t) ==
    /\ pc[t] = "handled"
    /\ IF idx[t] < Len(batch[t]) /\ escaped[t] = NoExc
       THEN /\ idx' = [idx EXCEPT ![t] = @ + 1]
            /\ pc' = [pc EXCEPT ![t] = "message"]
            /\ UNCHANGED <<batch, caught>>
       ELSE /\ idx' = [idx EXCEPT ![t] = 0]
            /\ batch' = [batch EXCEPT ![t] = <<>>]
            /\ pc' = [pc EXCEPT ![t] = "sleep"]
            /\ caught' = [caught EXCEPT ![t] = escaped[t]]
    /\ calls' = [calls EXCEPT ![t] = <<>>]
    /\ work' = [work EXCEPT ![t] = NoWork]
    /\ escaped' = [escaped EXCEPT ![t] = NoExc]
    /\ UNCHANGED <<running, task, polls, hostPc, waits, lastStart, queue, msgs>>
    /\ UNCHANGED <<pipeVars, clsVars, cfgVars, lazyVars>>

\* the `for message in messages` of _process_messages, whose `except Exception`
\* swallows what escaped: the next message, or back to _poll_loop and its sleep
NextMessage(t) ==
    /\ pc[t] = "handled"
    /\ IF idx[t] < Len(batch[t])
       THEN /\ idx' = [idx EXCEPT ![t] = @ + 1]
            /\ pc' = [pc EXCEPT ![t] = "message"]
            /\ UNCHANGED batch
       ELSE /\ idx' = [idx EXCEPT ![t] = 0]
            /\ batch' = [batch EXCEPT ![t] = <<>>]
            /\ pc' = [pc EXCEPT ![t] = "sleep"]
    /\ calls' = [calls EXCEPT ![t] = <<>>]
    /\ work' = [work EXCEPT ![t] = NoWork]
    /\ escaped' = [escaped EXCEPT ![t] = NoExc]
    /\ UNCHANGED <<running, task, polls, hostPc, waits, lastStart, caught, queue, msgs>>
    /\ UNCHANGED <<pipeVars, clsVars, cfgVars, lazyVars>>

\* asyncio.sleep(polling_interval) is over
Wake(t) ==
    /\ pc[t] = "sleep"
    /\ EventLoopFreeFor(t)
    /\ pc' = [pc EXCEPT ![t] = "while"]
    /\ UNCHANGED <<running, task, batch, idx, calls, work, escaped, polls, hostPc, waits, lastStart, caught,
                   queue, msgs>>
    /\ UNCHANGED <<pipeVars, clsVars, cfgVars, lazyVars>>

\* the state after BackgroundPoller.__init__ and the adapters' __init__
InitPoller ==
    /\ running = FALSE
    /\ task = 0
    /\ pc = [t \in Tasks |-> "none"]
    /\ batch = [t \in Tasks |-> <<>>]
    /\ idx = [t \in Tasks |-> 0]
    /\ calls = [t \in Tasks |-> <<>>]
    /\ work = [t \in Tasks |-> NoWork]
    /\ escaped = [t \in Tasks |-> NoExc]
    /\ polls = 0
    /\ waits = {}
    /\ lastStart = "none"
    /\ caught = [t \in Tasks |-> NoExc]

InitPipeline ==
    /\ store = {}
    /\ uuidCtr = 0
    /\ runs = <<>>

InitClassify ==
    /\ clsErr = NoExc
    /\ clsResult = "none"

\* Settings.max_retries
DefaultMaxRetries == 3

\* the poller as create_app() builds it when MAX_RETRIES is not set
InitConfig == max_retries = DefaultMaxRetries

\* Model2VecAdapter.__init__ and PineconeAdapter.__init__ leave _model and
\* _index at None; no unit of work has begun
InitAdapters ==
    /\ handle = [a \in LazyNames |-> 0]
    /\ inits = [a \in LazyNames |-> 0]
    /\ unit = [th \in UnitThreads |-> IdleUnit]

Init ==
    /\ InitPoller
    /\ InitConfig
    /\ InitAdapters
    /\ hostPc = "startup"
    /\ InitPipeline
    /\ InitClassify
    /\ queue = 1..MaxQueue
    /\ msgs \in [1..MaxQueue -> UNION {QueueMessages(i) : i \in 1..MaxQueue}]
    /\ \A i \in 1..MaxQueue : msgs[i] \in QueueMessages(i)

Next ==
    \/ LifespanStartup
    \/ LifespanShutdown
    \/ LifespanStopped
    \/ \E t \in Tasks : PollIterate(t)
    \/ \E t \in Tasks : LoopExit(t)
    \/ \E t \in Tasks : HandleMessage(t)
    \/ \E t \in Tasks : RunWorker(t)
    \/ \E t \in Tasks : ResumeMessage(t)
    \/ \E t \in Tasks : NextMessage(t)
    \/ \E t \in Tasks : Wake(t)

Spec == Init /\ [][Next]_vars

----------------------------------------------------------------------------
(* The poller under lifespan() on a queue of one message, whose body is any *)
(* of Bodies.                                                               *)

BodyMessages ==
    {Message(b, Handles[1], a) : b \in Bodies, a \in {NoAttributes}}

InitBodies ==
    /\ InitPoller
    /\ InitConfig
    /\ InitAdapters
    /\ hostPc = "startup"
    /\ InitPipeline
    /\ InitClassify
    /\ queue = {1}
    /\ msgs \in [{1} -> BodyMessages]

SpecBodies == InitBodies /\ [][Next]_vars

----------------------------------------------------------------------------
(* One batch: the poller under lifespan() on a queue of MaxReceived         *)
(* messages, each a well-formed or a malformed one, from the loop's first   *)
(* receive_messages call, which may return them together, to the return of  *)
(* _process_messages and the shutdown.                                      *)

BatchMessages(i) ==
    {Message(Body_Flat, Handles[i], NoAttributes),
     Message(Body_NotJson, Handles[i], NoAttributes)}

InitBatch ==
    /\ InitPoller
    /\ InitConfig
    /\ InitAdapters
    /\ hostPc = "startup"
    /\ InitPipeline
    /\ InitClassify
    /\ queue = 1..MaxReceived
    /\ msgs \in [1..MaxReceived -> UNION {BatchMessages(i) : i \in 1..MaxReceived}]
    /\ \A i \in 1..MaxReceived : msgs[i] \in BatchMessages(i)

NextBatch ==
    \/ LifespanStartup
    \/ LifespanShutdown
    \/ LifespanStopped
    \/ \E t \in Tasks : polls = 0 /\ PollIterate(t)
    \/ \E t \in Tasks : LoopExit(t)
    \/ \E t \in Tasks : HandleMessage(t)
    \/ \E t \in Tasks : RunWorker(t)
    \/ \E t \in Tasks : ResumeMessage(t)
    \/ \E t \in Tasks : NextMessage(t)
    \/ \E t \in Tasks : Wake(t)

SpecBatch == InitBatch /\ [][NextBatch]_vars

----------------------------------------------------------------------------
(* _is_critical_error alone. *)

Classify ==
    /\ clsResult = "none"
    /\ clsResult' = IF is_critical_error(clsErr) THEN "critical" ELSE "retryable"
    /\ UNCHANGED clsErr
    /\ UNCHANGED <<pollerVars, pipeVars, cfgVars, lazyVars>>

InitClassifySpec ==
    /\ InitPoller
    /\ InitConfig
    /\ InitAdapters
    /\ hostPc = "startup"
    /\ InitPipeline
    /\ queue = {}
    /\ msgs = <<>>
    /\ clsErr \in {Exc(ty, tx) : ty \in ClassifyTypes, tx \in ClassifyTexts}
    /\ clsResult = "none"

NextClassify == Classify

SpecClassify == InitClassifySpec /\ [][NextClassify]_vars

----------------------------------------------------------------------------
(* process_file alone: one (bucket, key) is processed, and processed again. *)

PipelineTargets == {<<JStr(B), JStr(K)>>}
PipelineLoadErrors == {Exc("FileNotFoundError", Txt_NoSuchFile)}
PipelineEmbedErrors == {Exc("ConnectionError", Txt_ConnReset)}
PipelineEmbedExtras == {-1, 0, 1}
PipelineUpsertErrors == {Exc("TimeoutError", Txt_TimedOut)}

\* one call of process_file, as the manual trigger or a test makes it
ProcessFileCall(target) ==
    \E lo \in LoadOutcomes(PipelineLoadErrors, DocLists(DocContents)),
       eo \in EmbedOutcomes(PipelineEmbedErrors, PipelineEmbedExtras),
       uo \in UpsertOutcomes(PipelineUpsertErrors) :
        LET r == process_file(target[1], target[2], lo, eo, uo, store, uuidCtr)
        IN  /\ store' = r.index
            /\ uuidCtr' = r.uuids
            /\ runs' = Append(runs, [target |-> target, lo |-> lo, eo |-> eo, uo |-> uo,
                                     before |-> store, r |-> r])

ProcessFile ==
    /\ runs = <<>>
    /\ \E target \in PipelineTargets : ProcessFileCall(target)
    /\ UNCHANGED <<pollerVars, clsVars, cfgVars, lazyVars>>

ReprocessFile ==
    /\ Len(runs) = 1
    /\ ProcessFileCall(runs[1].target)
    /\ UNCHANGED <<pollerVars, clsVars, cfgVars, lazyVars>>

InitPipelineSpec ==
    /\ InitPoller
    /\ InitConfig
    /\ InitAdapters
    /\ hostPc = "startup"
    /\ InitPipeline
    /\ InitClassify
    /\ queue = {}
    /\ msgs = <<>>

NextPipeline == ProcessFile \/ ReprocessFile

SpecPipeline == InitPipelineSpec /\ [][NextPipeline]_vars

----------------------------------------------------------------------------
(* The lazy properties alone: one unit of work on each thread.             *)

InitLazySpec == InitPipelineSpec

NextLazy ==
    \/ \E th \in UnitThreads : UnitStart(th)
    \/ \E th \in UnitThreads : LazyCheck(th)
    \/ \E th \in UnitThreads : LazyCreate(th)
    \/ \E th \in UnitThreads : LazyAssign(th)
    \/ \E th \in UnitThreads : LazyReturn(th)

SpecLazy == InitLazySpec /\ [][NextLazy]_vars

----------------------------------------------------------------------------
(* The poller under start() and stop() calls made at any time by coroutines *)
(* of the host, on a queue of one message that starts a unit of work and    *)
(* of messages without a ReceiptHandle, which are skipped.                  *)

InitLifecycle ==
    /\ InitPoller
    /\ InitConfig
    /\ InitAdapters
    /\ hostPc = "callers"
    /\ InitPipeline
    /\ InitClassify
    /\ queue = 1..MaxBatch
    /\ msgs = [i \in 1..MaxBatch |->
                 IF i = 1 THEN Message(Body_Flat, Handles[i], NoAttributes)
                          ELSE Message(Body_Flat, "", NoAttributes)]

LoopStep(t) ==
    \/ PollIterate(t)
    \/ LoopExit(t)
    \/ HandleMessage(t)
    \/ ResumeMessage(t)
    \/ NextMessage(t)
    \/ Wake(t)

NextLifecycle ==
    \/ Start
    \/ Stop
    \/ \E k \in Tasks : Stopped(k)
    \/ \E t \in Tasks : LoopStep(t)
    \/ \E t \in Tasks : RunWorker(t)

SpecLifecycle == InitLifecycle /\ [][NextLifecycle]_vars

\* asyncio resumes every coroutine that is ready, a sleep ends, and a worker
\* thread runs its function to the end
SpecLifecycleFair ==
    /\ SpecLifecycle
    /\ WF_vars(\E t \in Tasks : LoopStep(t) \/ RunWorker(t))

\* one run of the poller, as the lifespan of main.py makes it: start() is called
\* once, on the poller just constructed, and stop() after it
NextRun ==
    \/ task = 0 /\ Start
    \/ Stop
    \/ \E k \in Tasks : Stopped(k)
    \/ \E t \in Tasks : LoopStep(t)
    \/ \E t \in Tasks : RunWorker(t)

SpecRun == InitLifecycle /\ [][NextRun]_vars

\* free start() and stop() calls, where asyncio resumes each loop task that is
\* ready and each stop() whose awaited task is done, and each worker thread
\* runs its function to the end; the callers are not bound to call anything
SpecStopFair ==
    /\ SpecLifecycle
    /\ \A t \in Tasks : WF_vars(LoopStep(t))
    /\ \A t \in Tasks : WF_vars(RunWorker(t))
    /\ \A k \in Tasks : WF_vars(Stopped(k))

SpecRunFair ==
    /\ SpecRun
    /\ WF_vars(\E t \in Tasks : LoopStep(t) \/ RunWorker(t))

\* one run of the poller on a message that is delivered again after each
\* retryable failure, for a poller built with any max_retries (MAX_RETRIES)
InitRedelivery ==
    /\ InitPoller
    /\ max_retries \in 1..MaxLoopPolls
    /\ InitAdapters
    /\ hostPc = "callers"
    /\ InitPipeline
    /\ InitClassify
    /\ queue = 1..MaxBatch
    /\ msgs = [i \in 1..MaxBatch |->
                 IF i = 1 THEN Message(Body_Flat, Handles[i], NoAttributes)
                          ELSE Message(Body_Flat, "", NoAttributes)]

SpecRedelivery == InitRedelivery /\ [][NextRun]_vars

----------------------------------------------------------------------------
(* Vocabulary of the properties.                                           *)

\* the handling of a message by task t is over, and its calls are in calls[t]
Handled(t) == pc[t] = "handled"

\* process_file was run for the current message of task t
Worked(t) == Handled(t) /\ work[t].state = "done"

CallsOf(t, op) == {i \in DOMAIN calls[t] : calls[t][i].op = op}

IsDelete(c, message) == c.op = "delete" /\ c.token = message.ReceiptHandle

IsDlq(c, message, error_type, error_message) ==
    /\ c.op = "dlq"
    /\ c.body = message.Body
    /\ c.attrs["ErrorType"].StringValue = error_type
    /\ c.attrs["ErrorMessage"].StringValue = error_message

\* the keyword patterns, as the specification lists them
KeywordPatterns ==
    { <<"i", "n", "v", "a", "l", "i", "d">>,
      <<"n", "o", "t", " ", "f", "o", "u", "n", "d">>,
      <<"p", "a", "r", "s", "e">>,
      <<"f", "o", "r", "m", "a", "t">>,
      <<"d", "e", "c", "o", "d", "e">>,
      <<"u", "n", "s", "u", "p", "p", "o", "r", "t", "e", "d">> }

HasKeyword(text) == \E p \in KeywordPatterns : Contains(p, Lower(text))

\* critical by the rule of the specification: the kind, or a keyword in the text
CriticalByRule(e) == e.type \in critical_error_types \/ HasKeyword(e.msg)

\* bodies that are not JSON, or lack the fields of both accepted shapes
MalformedBodies == {Body_NotJson, Body_OnlyBucket}

\* kinds of failure that are transient: a timeout, an unreachable service
TransientKinds == {"TimeoutError", "ConnectionError"}

\* the throttling error of the queue's client
Throttled == Exc("ClientError", Txt_RateExceeded)

\* Python's exception classes: the class a class specialises
BaseKind ==
    [ty \in ClassifyTypes |->
        CASE ty = "JSONDecodeError"    -> "ValueError"
          [] ty = "UnicodeDecodeError" -> "ValueError"
          [] ty = "UnicodeEncodeError" -> "ValueError"
          [] ty = "FileNotFoundError"  -> "OSError"
          [] ty = "TimeoutError"       -> "OSError"
          [] ty = "ConnectionError"    -> "OSError"
          [] OTHER                     -> "Exception"]

\* the embedding/chunk count-mismatch failure of process_file
IsCountMismatch(e) == e.type = "ValueError" /\ Contains(Txt_MismatchHead, e.msg)

\* the chunks of a loaded document that pass validation: those with content
\* left after stripping
ValidDocs(docs) == {i \in DOMAIN docs : Strip(docs[i].page_content) # <<>>}

----------------------------------------------------------------------------
(* Properties.                                                             *)

\* C1: for a message with an ack token and an extractable target, when
\* process_file returns (any count), the poller calls delete exactly once with
\* the message's token and makes no dead-letter call for the message.
C1_SuccessDeletesOnceNoDlq ==
    \A t \in Tasks :
        (Worked(t) /\ CurrentMessage(t).ReceiptHandle # "" /\ work[t].exc = NoExc)
        => /\ Cardinality({i \in CallsOf(t, "delete") :
                              IsDelete(calls[t][i], CurrentMessage(t))}) = 1
           /\ CallsOf(t, "dlq") = {}

\* C2, as claimed: for a message with an ack token and a malformed body, the
\* poller calls send_to_dlq with ErrorType INVALID_MESSAGE_FORMAT, then calls
\* delete with the message's token, and never calls process_file.
C2_MalformedDlqThenDelete ==
    \A t \in Tasks :
        (Handled(t) /\ CurrentMessage(t).ReceiptHandle # ""
                    /\ CurrentMessage(t).Body \in MalformedBodies)
        => /\ \E i, j \in DOMAIN calls[t] :
                /\ i < j
                /\ IsDlq(calls[t][i], CurrentMessage(t), "INVALID_MESSAGE_FORMAT",
                         Txt_CouldNotExtract)
                /\ IsDelete(calls[t][j], CurrentMessage(t))
           /\ CallsOf(t, "process") = {}

\* C2, amended: for a message with an ack token and a malformed body, the first
\* call of the poller is send_to_dlq with ErrorType INVALID_MESSAGE_FORMAT and the
\* original body; when that send returns, the next call is delete with the
\* message's token; process_file is never called.
C2_MalformedDlqThenDeleteIfSent ==
    \A t \in Tasks :
        (Handled(t) /\ CurrentMessage(t).ReceiptHandle # ""
                    /\ CurrentMessage(t).Body \in MalformedBodies)
        => /\ Len(calls[t]) >= 1
           /\ IsDlq(calls[t][1], CurrentMessage(t), "INVALID_MESSAGE_FORMAT",
                    Txt_CouldNotExtract)
           /\ calls[t][1].exc = NoExc
                => Len(calls[t]) >= 2 /\ IsDelete(calls[t][2], CurrentMessage(t))
           /\ CallsOf(t, "process") = {}
           /\ work[t].state = "none"

C2_Witness ==
    \E t \in Tasks :
        /\ Handled(t)
        /\ CurrentMessage(t).Body = Body_NotJson
        /\ Len(calls[t]) = 2
        /\ calls[t][1].op = "dlq" /\ calls[t][1].exc = NoExc
        /\ calls[t][2].op = "delete" /\ calls[t][2].exc = NoExc
        /\ queue = {}

\* C3, as claimed: when process_file fails with a critical error, the poller
\* calls send_to_dlq with the original body, ErrorType the exception's type name
\* and ErrorMessage its text, and afterwards deletes the message; the send
\* precedes every delete.
C3_CriticalDlqThenDelete ==
    \A t \in Tasks :
        (Worked(t) /\ work[t].exc # NoExc /\ CriticalByRule(work[t].exc))
        => /\ \E i, j \in DOMAIN calls[t] :
                /\ i < j
                /\ IsDlq(calls[t][i], CurrentMessage(t), work[t].exc.type, work[t].exc.msg)
                /\ IsDelete(calls[t][j], CurrentMessage(t))
           /\ \A j \in CallsOf(t, "delete") : \E i \in CallsOf(t, "dlq") : i < j

\* C3, amended: when process_file fails with a critical error, the poller's next
\* call is send_to_dlq with the original body, ErrorType the exception's type
\* name and ErrorMessage its text; when that send returns, the call after it is
\* delete with the message's token, and when it raises no delete is called; no
\* delete precedes the send.
C3_CriticalDlqThenDeleteIfSent ==
    \A t \in Tasks :
        (Worked(t) /\ work[t].exc # NoExc /\ CriticalByRule(work[t].exc))
        => /\ Len(calls[t]) >= 2
           /\ calls[t][1].op = "process"
           /\ IsDlq(calls[t][2], CurrentMessage(t), work[t].exc.type, work[t].exc.msg)
           /\ calls[t][2].exc = NoExc
                => Len(calls[t]) = 3 /\ IsDelete(calls[t][3], CurrentMessage(t))
           /\ calls[t][2].exc # NoExc => CallsOf(t, "delete") = {}
           /\ \A j \in CallsOf(t, "delete") : \E i \in CallsOf(t, "dlq") : i < j

C3_Witness ==
    \E t \in Tasks :
        /\ Worked(t)
        /\ work[t].exc = Exc("FileNotFoundError", Txt_NoSuchFile)
        /\ Len(calls[t]) = 3
        /\ calls[t][2].op = "dlq" /\ calls[t][2].exc = NoExc
        /\ calls[t][3].op = "delete" /\ calls[t][3].exc = NoExc
        /\ queue = {}

\* C4: when process_file fails with a retryable error, the poller makes no
\* delete call and no dead-letter call for the message, and the message stays
\* in the main queue.
C4_RetryableLeftInQueue ==
    \A t \in Tasks :
        (Worked(t) /\ work[t].exc # NoExc /\ ~CriticalByRule(work[t].exc))
        => /\ CallsOf(t, "delete") = {}
           /\ CallsOf(t, "dlq") = {}
           /\ Len(calls[t]) = 1
           /\ batch[t][idx[t]] \in queue
           /\ escaped[t] = NoExc

C4_Witness ==
    \E t \in Tasks :
        /\ Worked(t)
        /\ work[t].exc = Exc("TimeoutError", Txt_TimedOut)
        /\ Len(calls[t]) = 1
        /\ batch[t][idx[t]] \in queue

\* C5, as claimed: a failure of a transient kind, whatever its text, is never
\* dead-lettered: the poller makes no send_to_dlq call and no delete call for
\* the message.
C5_TransientNeverDlq ==
    \A t \in Tasks :
        (Worked(t) /\ work[t].exc.type \in TransientKinds)
        => CallsOf(t, "dlq") = {} /\ CallsOf(t, "delete") = {}

\* C5, amended: a failure of a transient kind whose text, lower-cased, contains
\* none of the keyword patterns is never dead-lettered: raised by process_file,
\* the poller makes no send_to_dlq call and no delete call for the message;
\* raised by a call of the queue (throttling), no further call follows it.
C5_TransientWithoutKeywordNeverDlq ==
    \A t \in Tasks :
        /\ (Worked(t) /\ work[t].exc.type \in TransientKinds /\ ~HasKeyword(work[t].exc.msg))
            => CallsOf(t, "dlq") = {} /\ CallsOf(t, "delete") = {}
        /\ Handled(t)
            => \A i \in DOMAIN calls[t] :
                  (calls[t][i].exc = Throttled /\ ~HasKeyword(Throttled.msg))
                  => i = Len(calls[t])

C5_Witness ==
    \E t \in Tasks :
        /\ Worked(t)
        /\ work[t].exc.type = "TimeoutError"
        /\ ~HasKeyword(work[t].exc.msg)
        /\ calls[t][1].op = "process"

\* C6: an error is classified critical if and only if its kind is one of the
\* critical kinds or its text, lower-cased, contains one of the six patterns; a
\* text with "not found" is critical whatever the kind, and a timeout with a
\* generic text is retryable.
C6_ClassificationIsDisjunction ==
    clsResult # "none"
    => /\ clsResult = "critical" <=> CriticalByRule(clsErr)
       /\ clsResult = "retryable" <=> ~CriticalByRule(clsErr)
       /\ Contains(<<"n", "o", "t", " ", "f", "o", "u", "n", "d">>, Lower(clsErr.msg))
            => clsResult = "critical"
       /\ clsErr = Exc("TimeoutError", Txt_TimedOut) => clsResult = "retryable"

C6_Witness ==
    /\ clsResult = "critical"
    /\ clsErr = Exc("TimeoutError", Txt_HostNotFound)

\* C7: every error whose kind is one of the critical kinds, or a specialisation
\* of one, is classified critical by its kind alone, also when its text
\* contains none of the patterns.
C7_SubKindsCritical ==
    (clsResult # "none"
        /\ (clsErr.type \in critical_error_types
            \/ BaseKind[clsErr.type] \in critical_error_types))
    => clsResult = "critical"

\* C8: when the embedding model returns a number of vectors different from the
\* number of validated chunks, process_file raises, upsert is not called, no
\* vector is assembled and the index is unchanged.
C8_CountMismatchRaises ==
    \A i \in DOMAIN runs :
        LET x == runs[i]
            nValid == Cardinality(ValidDocs(x.lo.docs))
        IN  (x.lo.exc = NoExc /\ nValid > 0 /\ x.eo.exc = NoExc /\ x.eo.extra # 0)
            => /\ Len(x.r.embeddings) # nValid
               /\ x.r.exc # NoExc
               /\ IsCountMismatch(x.r.exc)
               /\ x.r.portCalls = <<"load", "embed">>
               /\ x.r.vectors = <<>>
               /\ x.r.index = x.before

C8_Witness ==
    \E i \in DOMAIN runs :
        /\ runs[i].lo.exc = NoExc
        /\ Cardinality(ValidDocs(runs[i].lo.docs)) = 2
        /\ runs[i].eo.exc = NoExc
        /\ runs[i].eo.extra = 1
        /\ Len(runs[i].r.embeddings) = 3

\* C9, as claimed: a count-mismatch failure of process_file is classified
\* critical: the message is dead-lettered and deleted from the main queue,
\* never left for redelivery.
C9_MismatchDlqAndDeleted ==
    \A t \in Tasks :
        (Worked(t) /\ IsCountMismatch(work[t].exc))
        => /\ \E i \in CallsOf(t, "dlq") : calls[t][i].exc = NoExc
           /\ \E j \in CallsOf(t, "delete") : calls[t][j].exc = NoExc
           /\ batch[t][idx[t]] \notin queue

\* C9, amended: a count-mismatch failure of process_file is classified critical:
\* the poller calls send_to_dlq for the message with ErrorType ValueError and,
\* when that send returns, calls delete; the message is left in the main queue
\* only when one of these two calls of the queue raises.
C9_MismatchIsCritical ==
    \A t \in Tasks :
        (Worked(t) /\ IsCountMismatch(work[t].exc))
        => /\ Len(calls[t]) >= 2
           /\ IsDlq(calls[t][2], CurrentMessage(t), "ValueError", work[t].exc.msg)
           /\ calls[t][2].exc = NoExc
                => Len(calls[t]) = 3 /\ IsDelete(calls[t][3], CurrentMessage(t))
           /\ batch[t][idx[t]] \in queue
                => \E i \in DOMAIN calls[t] : calls[t][i].exc # NoExc

C9_Witness ==
    \E t \in Tasks :
        /\ Worked(t)
        /\ IsCountMismatch(work[t].exc)
        /\ Len(calls[t]) = 3
        /\ \A i \in DOMAIN calls[t] : calls[t][i].exc = NoExc
        /\ queue = {}

\* C10: processing the same (bucket, key) twice, the document unchanged, upserts
\* vectors with the same ids both times, and the index holds after the second
\* run the entries it held after the first.
C10_ReprocessSameIds ==
    (Len(runs) = 2
        /\ runs[1].target = runs[2].target
        /\ runs[1].lo = runs[2].lo
        /\ runs[1].r.exc = NoExc /\ runs[2].r.exc = NoExc)
    => /\ {runs[1].r.vectors[i].id : i \in DOMAIN runs[1].r.vectors}
            = {runs[2].r.vectors[i].id : i \in DOMAIN runs[2].r.vectors}
       /\ runs[2].r.index = runs[1].r.index

\* the port calls process_file may make, in their order
PortOrder == <<"load", "embed", "upsert">>

\* C11: the count process_file returns never exceeds the number of loaded
\* chunks that pass validation.
C11_CountAtMostValidated ==
    \A i \in DOMAIN runs :
        /\ runs[i].r.count <= Cardinality(ValidDocs(runs[i].lo.docs))
        /\ runs[i].r.count <= Len(runs[i].r.valid)

C11_Witness ==
    \E i \in DOMAIN runs :
        /\ runs[i].r.exc = NoExc
        /\ Len(runs[i].lo.docs) = 2
        /\ Cardinality(ValidDocs(runs[i].lo.docs)) = 1
        /\ runs[i].r.count = 1

\* C12: when the loader returns no document, or every loaded chunk fails
\* validation, process_file returns 0 without raising and calls neither the
\* embedding model nor the index; chunks failing validation are dropped without
\* failing the call, and the surviving chunks keep their relative order.
C12_EmptyReturnsZero ==
    \A i \in DOMAIN runs :
        LET x == runs[i]
            ok == ValidDocs(x.lo.docs)
        IN  /\ (x.lo.exc = NoExc /\ ok = {})
                => /\ x.r.exc = NoExc
                   /\ x.r.count = 0
                   /\ x.r.portCalls = <<"load">>
                   /\ x.r.index = x.before
            /\ x.lo.exc = NoExc
                => /\ {x.r.valid[j].chunk_index : j \in DOMAIN x.r.valid}
                        = {k - 1 : k \in ok}
                   /\ \A j, k \in DOMAIN x.r.valid :
                        j < k => x.r.valid[j].chunk_index < x.r.valid[k].chunk_index
            /\ (x.lo.exc = NoExc /\ ok # {} /\ x.eo = [exc |-> NoExc, extra |-> 0]
                    /\ x.uo.exc = NoExc)
                => x.r.exc = NoExc /\ x.r.count = Cardinality(ok)

C12_Witness ==
    \E i \in DOMAIN runs :
        /\ runs[i].lo.exc = NoExc
        /\ Len(runs[i].lo.docs) = 2
        /\ ValidDocs(runs[i].lo.docs) = {}
        /\ runs[i].r.count = 0
        /\ runs[i].r.portCalls = <<"load">>

\* C13: within one process_file call the ports are called in the order load,
\* embed, upsert, each at most once; upsert is called only after load,
\* validation and embedding with matching counts have succeeded; a failure of a
\* step is the one failure of the call, and a failure of load, validation or
\* embedding leaves no upsert call made; a failed call leaves the index as it was.
C13_NoPartialCommit ==
    \A i \in DOMAIN runs :
        LET x == runs[i]
            n == Len(x.r.portCalls)
        IN  /\ n \in 1..3
            /\ x.r.portCalls = SubSeq(PortOrder, 1, n)
            /\ n = 3 => /\ x.lo.exc = NoExc
                        /\ ValidDocs(x.lo.docs) # {}
                        /\ x.eo.exc = NoExc
                        /\ Len(x.r.embeddings) = Cardinality(ValidDocs(x.lo.docs))
            /\ x.lo.exc # NoExc => x.r.exc = x.lo.exc /\ n = 1
            /\ (n >= 2 /\ x.eo.exc # NoExc) => x.r.exc = x.eo.exc /\ n = 2
            /\ (n = 3 /\ x.uo.exc # NoExc) => x.r.exc = x.uo.exc
            /\ x.r.exc # NoExc => x.r.index = x.before /\ x.r.count = 0

C13_Witness ==
    \E i \in DOMAIN runs :
        /\ runs[i].r.portCalls = <<"load", "embed">>
        /\ runs[i].eo.exc = Exc("ConnectionError", Txt_ConnReset)
        /\ runs[i].r.exc = Exc("ConnectionError", Txt_ConnReset)
        /\ Len(runs[i].r.valid) = 2

\* C14: every unit of work passes through the text splitter: whenever
\* process_file calls the embedding model, it has called the splitter after the
\* loader and before it.
C14_SplitBeforeEmbed ==
    \A i \in DOMAIN runs :
        LET calls_ == runs[i].r.portCalls
        IN  \A j \in DOMAIN calls_ :
                calls_[j] = "embed"
                => \E k \in 1..(j - 1) : calls_[k] = "split"

\* the loop tasks created so far
Created == {t \in Tasks : pc[t] # "none"}

\* the loop tasks that have not returned
Alive == {t \in Tasks : pc[t] \notin {"none", "exited"}}

\* the loop tasks whose unit of work is running on a worker thread
InFlight == {t \in Tasks : pc[t] = "thread"}

\* C15: start() called while the poller is running is a no-op: no loop task is
\* created, and the loop task and the running flag stay as they are.
C15_StartWhileRunningNoOp ==
    [][running
        => /\ task' = task
           /\ \A t \in Tasks : pc[t] = "none" => pc'[t] = "none"
           /\ (lastStart' = "noop" /\ lastStart # "noop") => running' /\ pc' = pc]_vars

C15_Witness ==
    /\ lastStart = "noop"
    /\ running
    /\ Created = {1}
    /\ pc[1] = "thread"

\* C16: stop() is cooperative and blocking: a loop task ends only at its
\* `while`, never within an iteration, and when a stop() call returns no loop
\* task created before that call (loop tasks are numbered as created, and
\* stop() awaits the last one) is handling a message or has a unit of work in
\* flight.
C16_StopWaitsForEveryLoop ==
    [][/\ \A t \in Tasks : (pc'[t] = "exited" /\ pc[t] # "exited") => pc[t] = "while"
       /\ \A k \in waits :
            k \notin waits'
            => \A t \in 1..k : pc[t] \notin {"message", "thread", "resume", "handled"}]_vars

\* C17: once stop() has cleared the flag, and until start() is called again, the
\* loop makes no receive_messages call, and a loop task at its `while` returns.
C17_NoReceiveAfterStop ==
    [][~running
        => /\ polls' = polls
           /\ \A t \in Tasks :
                (pc[t] = "while" /\ pc'[t] # "while") => pc'[t] = "exited"]_vars

C17_Witness ==
    /\ ~running
    /\ lastStart = "started"
    /\ Created = {1}
    /\ pc[1] = "exited"
    /\ polls = 1
    /\ polls < PollCap
    /\ queue # {}

\* C18: the poll loop ends only on stop(): it returns only at its `while` with
\* the flag cleared; a receive_messages failure is caught by the loop, which
\* sleeps; and as long as a loop task is alive and the flag stays set, another
\* receive_messages call follows (up to the MaxLoopPolls calls of a run).
C18_LoopEndsOnlyOnStop ==
    /\ [][\A t \in Tasks :
            /\ (pc'[t] = "exited" /\ pc[t] # "exited") => (pc[t] = "while" /\ ~running)
            /\ (polls' # polls /\ pc[t] = "while" /\ pc'[t] # "while"
                    /\ caught'[t] # NoExc)
                => pc'[t] = "sleep"]_vars
    /\ \A k \in 0..(MaxLoopPolls - 1) :
            (Alive # {} /\ polls = k) ~> (polls > k \/ ~running)

C18_Witness ==
    \E t \in Tasks :
        /\ running
        /\ pc[t] = "sleep"
        /\ caught[t] \in ReceiveErrors
        /\ polls = 1

\* C19: a received message without a ReceiptHandle is skipped: no port is
\* called for it (no send_to_dlq, no process_file, no delete), whatever its body,
\* and it stays in the queue.
C19_NoHandleSkipped ==
    \A t \in Tasks :
        (Handled(t) /\ CurrentMessage(t).ReceiptHandle = "")
        => /\ calls[t] = <<>>
           /\ work[t].state = "none"
           /\ escaped[t] = NoExc
           /\ batch[t][idx[t]] \in queue

C19_Witness ==
    \E t \in Tasks :
        /\ Handled(t)
        /\ CurrentMessage(t).ReceiptHandle = ""
        /\ CurrentMessage(t).Body = Body_NotJson
        /\ calls[t] = <<>>

\* C20: the messages of a batch are handled one after the other in the order
\* received, the loop sleeps only after the whole batch, and at every moment at
\* most one unit of work dispatched by the poll loop is in flight.
C20_OneUnitInFlight ==
    /\ Cardinality(InFlight) <= 1
    /\ \A t \in Tasks : pc[t] = "sleep" => (batch[t] = <<>> /\ idx[t] = 0)
    /\ \A t \in Tasks : pc[t] \in {"message", "thread", "resume", "handled"}
                            => idx[t] \in DOMAIN batch[t]

\* C29: the batch handed to upsert has one vector per validated chunk, in chunk
\* order: the i-th vector has the id of the i-th validated chunk and the i-th
\* vector the embedding model returned, and its metadata is the chunk's metadata
\* with source and chunk_index taken from the chunk, whatever the metadata held
\* under these two keys.
C29_VectorsMatchChunks ==
    \A n \in DOMAIN runs :
        LET r == runs[n].r
        IN  "upsert" \in {r.portCalls[j] : j \in DOMAIN r.portCalls}
            => /\ Len(r.vectors) = Len(r.valid)
               /\ \A i \in DOMAIN r.vectors :
                    LET v == r.vectors[i]
                        chunk == r.valid[i]
                    IN  /\ v.id = chunk.id
                        /\ v.vector = r.embeddings[i]
                        /\ DOMAIN v.metadata =
                                DOMAIN chunk.metadata \cup {"source", "chunk_index"}
                        /\ v.metadata["source"] = chunk.source
                        /\ v.metadata["chunk_index"] = chunk.chunk_index
                        /\ \A k \in DOMAIN chunk.metadata \ {"source", "chunk_index"} :
                                v.metadata[k] = chunk.metadata[k]

\* two validated chunks, upserted, whose loader metadata holds another source
C29_Witness ==
    \E n \in DOMAIN runs :
        LET r == runs[n].r
        IN  /\ r.exc = NoExc
            /\ r.count = 2
            /\ Len(r.vectors) = 2
            /\ r.embeddings[1] # r.embeddings[2]
            /\ "source" \in DOMAIN r.valid[1].metadata
            /\ r.valid[1].metadata["source"] = DocMetadata.source

\* C30: the poller calls delete for a message only after process_file returned
\* for it, or after a send_to_dlq call for the same message returned earlier in
\* the same handling; this holds too when a send_to_dlq or a delete call raises.
C30_DeleteOnlyAfterSuccessOrSend ==
    \A t \in Tasks : \A j \in CallsOf(t, "delete") :
        \/ work[t].state = "done" /\ work[t].exc = NoExc
        \/ \E i \in CallsOf(t, "dlq") :
                /\ i < j
                /\ calls[t][i].exc = NoExc
                /\ calls[t][i].body = CurrentMessage(t).Body

\* a send_to_dlq call raised, and the message was left in the queue undeleted
C30_Witness ==
    \E t \in Tasks :
        /\ Handled(t)
        /\ CurrentMessage(t).ReceiptHandle # ""
        /\ \E i \in CallsOf(t, "dlq") : calls[t][i].exc # NoExc
        /\ CallsOf(t, "delete") = {}
        /\ batch[t][idx[t]] \in queue

\* C28: each lazily loaded client (the embedding model, the index handle) is
\* created at most once per adapter, and every unit of work uses that one
\* object, whatever the interleaving of the worker thread's unit of work and
\* the manually triggered one.
C28_ClientCreatedOnce ==
    \A a \in LazyNames :
        /\ inits[a] <= 1
        /\ \A th \in UnitThreads : unit[th].used[a] \in {0, 1}

\* the keys _send_to_dlq_with_error adds
ErrorKeys == {"ErrorType", "ErrorMessage", "FailedAt"}

\* C24: every send_to_dlq call of the poller carries the body of the message
\* unchanged and the attributes of the message plus ErrorType, ErrorMessage and
\* FailedAt; no step changes a received message, body or attributes.
C24_DlqCarriesOriginal ==
    /\ [](\A t \in Tasks : \A i \in CallsOf(t, "dlq") :
            LET c == calls[t][i]
                original == CurrentMessage(t).MessageAttributes
            IN  /\ c.body = CurrentMessage(t).Body
                /\ DOMAIN c.attrs = DOMAIN original \cup ErrorKeys
                /\ \A k \in DOMAIN original \ ErrorKeys : c.attrs[k] = original[k]
                /\ \A k \in ErrorKeys : "StringValue" \in DOMAIN c.attrs[k])
    /\ [][msgs' = msgs]_vars

\* a message with an attribute of its own was dead-lettered
C24_Witness ==
    \E t \in Tasks :
        /\ Handled(t)
        /\ CurrentMessage(t).MessageAttributes = TraceAttributes
        /\ \E i \in CallsOf(t, "dlq") :
                /\ calls[t][i].exc = NoExc
                /\ calls[t][i].attrs["trace"] = TraceAttributes["trace"]
                /\ calls[t][i].attrs["ErrorType"].StringValue = "INVALID_MESSAGE_FORMAT"

\* _extract_s3_info was called on the current message of task t
Extracted(t) ==
    /\ pc[t] \in {"thread", "resume", "handled"}
    /\ CurrentMessage(t).ReceiptHandle # ""

\* the parsed body is an object with the fields bucket and key
HasFlatFields(data) ==
    data.t = "dict" /\ "bucket" \in DOMAIN data.v /\ "key" \in DOMAIN data.v

\* the first record of the parsed body has a non-empty s3.bucket.name and a
\* non-empty s3.object.key
FirstRecordValid(data) ==
    /\ data.t = "dict" /\ "Records" \in DOMAIN data.v
    /\ data.v["Records"].t = "list" /\ Len(data.v["Records"].v) > 0
    /\ LET record == data.v["Records"].v[1]
       IN  /\ record.t = "dict" /\ "s3" \in DOMAIN record.v
           /\ record.v["s3"].t = "dict"
           /\ "bucket" \in DOMAIN record.v["s3"].v
           /\ "object" \in DOMAIN record.v["s3"].v
           /\ record.v["s3"].v["bucket"].t = "dict"
           /\ record.v["s3"].v["object"].t = "dict"
           /\ "name" \in DOMAIN record.v["s3"].v["bucket"].v
           /\ "key" \in DOMAIN record.v["s3"].v["object"].v
           /\ Truthy(record.v["s3"].v["bucket"].v["name"])
           /\ Truthy(record.v["s3"].v["object"].v["key"])

FirstRecordPair(data) ==
    LET s3 == data.v["Records"].v[1].v["s3"]
    IN  <<s3.v["bucket"].v["name"], s3.v["object"].v["key"]>>

FlatPair(data) == <<data.v["bucket"], data.v["key"]>>

\* a non-empty string
NonEmptyStr(x) == x.t = "str" /\ Len(x.v) > 0

\* C21: for a body that is a flat object with the fields bucket and key,
\* extraction returns exactly that pair; for a body whose first record carries a
\* non-empty s3.bucket.name and s3.object.key, and whose flat fields give no
\* target, extraction returns the pair of the first record; no later record is
\* ever the source of the result.
C21_ExtractionReturnsPair ==
    \A t \in Tasks :
        Extracted(t) =>
            LET body == CurrentMessage(t).Body
                loaded == json_loads(body)
                data == loaded.data
                info == extract_s3_info(body)
            IN  loaded.ok =>
                /\ (HasFlatFields(data) /\ "Records" \notin DOMAIN data.v)
                        => info = FlatPair(data)
                /\ (FirstRecordValid(data)
                        /\ ~(HasFlatFields(data) /\ Truthy(data.v["bucket"])
                                                 /\ Truthy(data.v["key"])))
                        => info = FirstRecordPair(data)
                /\ \/ info = NoneNone
                   \/ HasFlatFields(data) /\ info = FlatPair(data)
                   \/ FirstRecordValid(data) /\ info = FirstRecordPair(data)

\* C22: process_file is called only with a bucket and a key that are both
\* non-empty strings; a message whose extracted bucket or key is empty, missing
\* or not a string is dead-lettered as INVALID_MESSAGE_FORMAT and process_file
\* is not called for it.
C22_TargetIsTwoNonEmptyStrings ==
    \A t \in Tasks :
        /\ \A i \in CallsOf(t, "process") :
                NonEmptyStr(calls[t][i].target[1]) /\ NonEmptyStr(calls[t][i].target[2])
        /\ Extracted(t) =>
                LET info == extract_s3_info(CurrentMessage(t).Body)
                IN  ~(NonEmptyStr(info[1]) /\ NonEmptyStr(info[2]))
                    => /\ CallsOf(t, "process") = {}
                       /\ Len(calls[t]) >= 1
                       /\ IsDlq(calls[t][1], CurrentMessage(t), "INVALID_MESSAGE_FORMAT",
                                Txt_CouldNotExtract)

\* C25: a body whose flat fields bucket and key are present but empty, and whose
\* first record carries a non-empty bucket name and object key, yields the pair
\* of the first record: process_file is called with it, and the message is not
\* dead-lettered as INVALID_MESSAGE_FORMAT.
C25_EmptyFlatFallsBackToRecord ==
    \A t \in Tasks :
        Extracted(t) =>
            LET body == CurrentMessage(t).Body
                loaded == json_loads(body)
                data == loaded.data
            IN  (/\ loaded.ok
                 /\ HasFlatFields(data)
                 /\ ~Truthy(data.v["bucket"]) /\ ~Truthy(data.v["key"])
                 /\ FirstRecordValid(data))
                => /\ extract_s3_info(body) = FirstRecordPair(data)
                   /\ Len(calls[t]) >= 1
                   /\ calls[t][1].op = "process"
                   /\ calls[t][1].target = FirstRecordPair(data)

\* the deliveries of the message that failed at the upsert, in one run of one
\* loop: each drew one chunk id and stored nothing
RetryableFailures == uuidCtr - Cardinality(store)

C26_DlqAfterMaxRetries ==
    \A t \in Tasks :
        (Worked(t) /\ work[t].exc # NoExc /\ RetryableFailures >= max_retries)
        => \E i \in CallsOf(t, "dlq") : calls[t][i].body = CurrentMessage(t).Body

----------------------------------------------------------------------------
(* C27 *)

\* C27: the messages of a batch are handled independently.  The handling of a
\* batch begins at its first message; whatever the handling of a message ended
\* with (an exception of process_file of either classification, an exception
\* of the queue's delete or send call that escaped _process_message), the loop
\* goes on to the next message of the same batch, and leaves the batch only
\* after its last message, with nothing caught by _poll_loop's `except`.
C27_BatchHandledIndependently ==
    [][\A t \in Tasks :
        /\ (pc[t] = "while" /\ pc'[t] = "message") => idx'[t] = 1
        /\ (pc[t] = "handled" /\ pc'[t] # "handled") =>
                /\ caught'[t] = NoExc
                /\ IF idx[t] < Len(batch[t])
                   THEN /\ pc'[t] = "message"
                        /\ idx'[t] = idx[t] + 1
                        /\ batch'[t] = batch[t]
                   ELSE pc'[t] = "sleep"
        /\ (pc[t] \in {"message", "thread", "resume"}) =>
                /\ batch'[t] = batch[t]
                /\ idx'[t] = idx[t]
                /\ caught'[t] = NoExc
                /\ pc'[t] \in {pc[t], "thread", "resume", "handled"}]_vars

\* the first message of a batch of two is malformed and still in the queue (its
\* send or its delete raised, and the exception escaped _process_message), and
\* the second has been handled and deleted
C27_Witness ==
    \E t \in Tasks :
        /\ Handled(t)
        /\ Len(batch[t]) = 2
        /\ idx[t] = 2
        /\ msgs[batch[t][1]].Body = Body_NotJson
        /\ batch[t][1] \in queue
        /\ batch[t][2] \notin queue
        /\ escaped[t] = NoExc

----------------------------------------------------------------------------
(* C31, C32 *)

\* C31: a message whose unit of work succeeded is never dead-lettered: once
\* process_file has returned for the message, whatever the delete call that
\* follows raises, the poller makes no send_to_dlq call for it.
C31_SucceededNeverDeadLettered ==
    \A t \in Tasks :
        (work[t].state = "done" /\ work[t].exc = NoExc)
        => \A i \in DOMAIN calls[t] : calls[t][i].op # "dlq"

\* C32: while one received message is handled, send_to_dlq is called at most
\* once; stated for the handlings in which no send_to_dlq call raises, which
\* include the one where the delete call that follows the
\* INVALID_MESSAGE_FORMAT send raises.
C32_AtMostOneDlqSend ==
    \A t \in Tasks :
        (\A i \in CallsOf(t, "dlq") : calls[t][i].exc = NoExc)
        => Cardinality(CallsOf(t, "dlq")) <= 1

----------------------------------------------------------------------------
(* C33, C34 *)

\* C33: at most one poll loop is alive at any time, under every interleaving
\* of start() and stop() calls, start() while a stop() is pending included.
C33_AtMostOneLoop == Cardinality(Alive) <= 1

\* C34: every stop() call eventually returns, under any interleaving with
\* start() calls; stated for a stop() pending once the queue has been emptied,
\* where every receive_messages call returns at once and no unit of work is
\* left to run.
C34_StopReturns ==
    \A k \in Tasks : (k \in waits /\ queue = {}) ~> (k \notin waits)

----------------------------------------------------------------------------
(* C35 *)

\* C35: target extraction is total.  For every body, whatever is raised
\* inside _extract_s3_info stays inside it and the result is then the failure
\* value (None, None); and every message with a receipt handle whose body
\* yields no target (the failure value, or a pair with an empty part) is
\* dead-lettered as INVALID_MESSAGE_FORMAT by the poller's first call, and is
\* neither processed nor dead-lettered under the exception's type.
C35_ExtractionTotal ==
    /\ \A i \in DOMAIN msgs :
            /\ ExtractEscapes(msgs[i].Body) = NoExc
            /\ ExtractRaised(msgs[i].Body) # NoExc
                    => extract_s3_info(msgs[i].Body) = NoneNone
    /\ \A t \in Tasks :
            (/\ Handled(t)
             /\ CurrentMessage(t).ReceiptHandle # ""
             /\ \/ ~Truthy(extract_s3_info(CurrentMessage(t).Body)[1])
                \/ ~Truthy(extract_s3_info(CurrentMessage(t).Body)[2]))
            => /\ calls[t] # <<>>
               /\ IsDlq(calls[t][1], CurrentMessage(t), "INVALID_MESSAGE_FORMAT",
                        Txt_CouldNotExtract)
               /\ CallsOf(t, "process") = {}

\* a body that is valid JSON and no object, on which the flat-field test raises
\* TypeError inside _extract_s3_info, has been dead-lettered as
\* INVALID_MESSAGE_FORMAT and deleted
C35_Witness ==
    \E t \in Tasks :
        /\ Handled(t)
        /\ CurrentMessage(t).Body = Body_Null
        /\ ExtractRaised(CurrentMessage(t).Body).type = "TypeError"
        /\ Len(calls[t]) = 2
        /\ IsDlq(calls[t][1], CurrentMessage(t), "INVALID_MESSAGE_FORMAT",
                 Txt_CouldNotExtract)
        /\ calls[t][1].exc = NoExc
        /\ IsDelete(calls[t][2], CurrentMessage(t))
        /\ batch[t][idx[t]] \notin queue

====
